---- MODULE Spec2Model ----
(***************************************************************************)
(* pico-gpio-net: the mock server's command loop (mock_server.py) and the   *)
(* queueing client (client.py), joined by two byte streams.                 *)
(*                                                                          *)
(* Bytes are naturals 0..255, byte strings are sequences.  The server is a  *)
(* process whose position is pc; it advances one take_from_buffer loop      *)
(* iteration, one blocking recv, one stage of run_command or one send at a  *)
(* time.  The client is a process whose position is cpc; it advances one    *)
(* public operation call or one blocking recv at a time.                    *)
(***************************************************************************)
EXTENDS Naturals, Sequences, FiniteSets

VARIABLES
    \* ---- PicoGpioNetDaemon (mock_server.py)
    pc,          \* "accept" | "command" | "take" | "send" | "dead"
    buffer,      \* self.buffer
    pins,        \* self.pins: function from the cached pins to their values
    frame,       \* activation of run_command: stage and take_from_buffer locals
    result,      \* value returned by run_command, about to be sent
    name,        \* self.name, encoded
    \* ---- the transport
    conn,        \* "none" | "open" | "peerclosed" | "srvclosed" | "closed"
    accepted,    \* TRUE once the server accepted the current connection
    c2s,         \* bytes written by the peer, not yet received by the server
    s2c,         \* bytes written by the server, not yet received by the peer
    \* ---- PicoGpioNetClient (client.py)
    cpc,         \* "raw" | "idle" | "flush" | "read" | "name" | "closed"
    queue,       \* self.queue
    queueCount,  \* self.queueCount
    autoFlush,   \* self.autoFlush
    call,        \* activation of the public operation in progress / last returned
    \* ---- PicoGpioNetClient, several instances in one process
    clsQueue,    \* PicoGpioNetClient.queue, the bytearray of the class attribute
    insts,       \* the instances: their own attributes, their socket, their flush
    \* ---- history (read by the properties only)
    hist,        \* server side history of the current connection
    chist        \* client side history: the public operations called so far

srvVars == <<pc, buffer, pins, frame, result, name>>
netVars == <<conn, accepted, c2s, s2c>>
twoVars == <<clsQueue, insts>>
cliVars == <<cpc, queue, queueCount, autoFlush, call, twoVars>>
vars == <<pc, buffer, pins, frame, result, name, conn, accepted, c2s, s2c,
          cpc, queue, queueCount, autoFlush, call, clsQueue, insts, hist, chist>>

----------------------------------------------------------------------------
(* Bounds of the model *)

\* most commands raw peers write, over all connections
MaxCmds == 2
\* most connections the raw peer opens
MaxConns == 2
\* most public operations called on the client
MaxOps == 3

----------------------------------------------------------------------------
(* Byte strings *)

Min(a, b) == IF a < b THEN a ELSE b

Take(s, k) == SubSeq(s, 1, k)

Drop(s, k) == SubSeq(s, k + 1, Len(s))

IsPrefix(s, t) == Len(s) <= Len(t) /\ Take(t, Len(s)) = s

RECURSIVE Pow256(_)
Pow256(k) == IF k = 0 THEN 1 ELSE 256 * Pow256(k - 1)

\* int.from_bytes(b, 'big')
RECURSIVE from_bytes(_)
from_bytes(b) ==
    IF b = <<>> THEN 0
    ELSE 256 * from_bytes(Take(b, Len(b) - 1)) + b[Len(b)]

\* n.to_bytes(k, 'big'), for n < 256^k
to_bytes(n, k) == [i \in 1..k |-> (n \div Pow256(k - i)) % 256]

----------------------------------------------------------------------------
(* The activation of a public operation of the client *)

\* a call of a public operation: its name and arguments, the bytes it
\* encodes and, for a read-style one, the length it asks recv for
Call(op, kind, args, cmd, length) ==
    [op |-> op, kind |-> kind, args |-> args, cmd |-> cmd, length |-> length,
     result |-> <<>>, tx |-> <<>>, q0 |-> <<>>, qc0 |-> 0, flushed |-> FALSE,
     ret |-> <<>>, status |-> "running", executed |-> 0, spins |-> FALSE,
     exc |-> FALSE]

\* no operation was called yet
NoCall == Call("none", "none", <<>>, <<>>, 0)

----------------------------------------------------------------------------
(* PicoGpioNetDaemon: configuration and opcodes (mock_server.py) *)

apiVersion == 2

CMD_SET_PIN_SINGLE == 0
CMD_SET_PIN_MULTI == 1
CMD_WRITE_BYTES == 2
CMD_GET_PIN_SINGLE == 3
CMD_GET_PIN_MULTI == 4
CMD_DELAY == 5
CMD_WAIT_FOR_PIN == 6
CMD_GET_NAME == 7
CMD_GET_API_VERSION == 8

maxSizeKb == 32

\* self.max_read_size = 1024 * maxSizeKb
max_read_size == 1024 * maxSizeKb

\* the name the daemon is constructed with where it is served to a client,
\* encoded: two letters
Mo == <<77, 111>>

\* 'Mock server', the name the module constructs its daemon with, encoded
MockServer == <<77, 111, 99, 107, 32, 115, 101, 114, 118, 101, 114>>

----------------------------------------------------------------------------
(* PicoGpioNetDaemon: the pin registry *)

\* cache_pin: insert the pin with value 0 when absent
cache_pin(pns, pin) ==
    IF pin \in DOMAIN pns THEN pns
    ELSE [q \in DOMAIN pns \cup {pin} |-> IF q = pin THEN 0 ELSE pns[q]]

\* faulty variant: the value is written to every cached pin
set_pin_every_pin(pns, pair) ==
    [q \in DOMAIN cache_pin(pns, pair[1]) |-> pair[2]]

\* set_pin(pair), for a pair of two bytes: self.pins[pair[0]] = pair[1]
set_pin(pns, pair) == [cache_pin(pns, pair[1]) EXCEPT ![pair[1]] = pair[2]]

\* get_pin(pin): the value returned (the registry becomes cache_pin(pns, pin))
get_pin(pns, pin) == cache_pin(pns, pin)[pin]

\* cmd_set_pin_multi, the loop over one yielded chunk:
\*   for i in range(0, length, 2): self.set_pin(pairs[i:i+2])
\* A slice of one byte makes set_pin raise IndexError at pair[1], before
\* the registry is touched for that pin.
RECURSIVE set_pairs(_, _)
set_pairs(pns, pairs) ==
    IF pairs = <<>> THEN [pins |-> pns, raised |-> FALSE]
    ELSE IF Len(pairs) = 1 THEN [pins |-> pns, raised |-> TRUE]
    ELSE set_pairs(set_pin(pns, Take(pairs, 2)), Drop(pairs, 2))

\* faulty variant: the values are put in front of returnData, last pin first
RECURSIVE get_each_reversed(_, _, _)
get_each_reversed(pns, byteArray, returnData) ==
    IF byteArray = <<>> THEN [pins |-> pns, returnData |-> returnData]
    ELSE get_each_reversed(cache_pin(pns, byteArray[1]), Drop(byteArray, 1),
                           <<get_pin(pns, byteArray[1])>> \o returnData)

\* cmd_get_pin_multi, the loop over one yielded chunk:
\*   for pin in byteArray: returnData.append(self.get_pin(pin))
RECURSIVE get_each(_, _, _)
get_each(pns, byteArray, returnData) ==
    IF byteArray = <<>> THEN [pins |-> pns, returnData |-> returnData]
    ELSE get_each(cache_pin(pns, byteArray[1]), Drop(byteArray, 1),
                  Append(returnData, get_pin(pns, byteArray[1])))

----------------------------------------------------------------------------
(* PicoGpioNetDaemon: run_command as a machine over take_from_buffer        *)
(*                                                                          *)
(* A local state S is [pc, buffer, pins, frame, result].  frame.stage names *)
(* the take in progress; numberOfBytes, returnedBytes are the locals of     *)
(* take_from_buffer and returnData the accumulator of its consumer.         *)

Begin(stage, n) ==
    [stage |-> stage, numberOfBytes |-> n, returnedBytes |-> 0,
     returnData |-> <<>>, data |-> <<>>]

NoFrame == Begin("none", 0)

\* stages whose consumer is take_from_buffer_single
SingleStages ==
    {"command", "set_pin_single", "set_pin_multi_len", "write_bytes_len",
     "get_pin_single", "get_pin_multi_len", "delay", "wait_for_pin",
     "wait_for_pin_delay"}

\* stages whose consumer is a loop inside the command handler
StreamStages == {"set_pin_multi", "write_bytes", "get_pin_multi"}

\* faulty variant: the whole buffer is yielded, whatever was asked for
bytesToRead_whole_buffer(remaining, bufferLength) == bufferLength

\* bytesToRead = min(remaining, bufferLength)
bytesToRead(remaining, bufferLength) == Min(remaining, bufferLength)

\* the body of the for loop that consumes one yielded chunk
loop_body(S, chunk) ==
    CASE S.frame.stage = "set_pin_multi" ->
            LET r == set_pairs(S.pins, chunk)
            IN  [S EXCEPT !.pins = r.pins,
                          !.pc = IF r.raised THEN "raise" ELSE @]
      [] S.frame.stage = "write_bytes" -> S
      [] S.frame.stage = "get_pin_multi" ->
            LET r == get_each(S.pins, chunk, S.frame.returnData)
            IN  [S EXCEPT !.pins = r.pins, !.frame.returnData = r.returnData]
      [] OTHER ->
            \* take_from_buffer_single: returnData.extend(loopBytes)
            [S EXCEPT !.frame.returnData = @ \o chunk]

\* one iteration of the while loop of take_from_buffer, the buffer being
\* non-empty: yield self.buffer[:bytesToRead], run the consumer, then
\* self.buffer = self.buffer[bytesToRead:].  When the consumer raises, the
\* generator is never resumed and the buffer stays untrimmed.
take_from_buffer(S) ==
    LET remaining == S.frame.numberOfBytes - S.frame.returnedBytes
        bufferLength == Len(S.buffer)
        k == bytesToRead(remaining, bufferLength)
        T == loop_body(S, Take(S.buffer, k))
    IN  IF T.pc = "raise" THEN T
        ELSE [T EXCEPT !.buffer = Drop(S.buffer, k),
                       !.frame.returnedBytes = @ + k]

\* while returnedBytes < numberOfBytes
take_pending(fr) == fr.returnedBytes < fr.numberOfBytes

\* faulty variant: the handler falls through to the next command and its
\* response is never handed to the sender
Return_unanswered(S, bytes) ==
    [S EXCEPT !.result = bytes, !.frame = Begin("command", 1)]

\* return <bytes> from run_command
Return(S, bytes) == [S EXCEPT !.pc = "send", !.result = bytes, !.frame = NoFrame]

\* faulty variant: only the last byte of the header is decoded
read_length_header_low_byte(request) == request[Len(request)]

\* read_length_header: int.from_bytes(request, 'big')
read_length_header(request) == from_bytes(request)

\* faulty variant: the name is answered without its length byte
cmd_get_name_bare(S) == Return(S, name)

\* cmd_get_name: nameLength.to_bytes() holds one byte, OverflowError beyond
cmd_get_name(S) ==
    IF Len(name) > 255 THEN [S EXCEPT !.pc = "raise"]
    ELSE Return(S, to_bytes(Len(name), 1) \o name)

\* faulty variant: CMD_DELAY reads a 1-byte delay instead of a 2-byte one
dispatch_short_delay(S, command) ==
    CASE command = CMD_SET_PIN_SINGLE -> [S EXCEPT !.frame = Begin("set_pin_single", 2)]
      [] command = CMD_SET_PIN_MULTI -> [S EXCEPT !.frame = Begin("set_pin_multi_len", 1)]
      [] command = CMD_WRITE_BYTES -> [S EXCEPT !.frame = Begin("write_bytes_len", 4)]
      [] command = CMD_GET_PIN_SINGLE -> [S EXCEPT !.frame = Begin("get_pin_single", 1)]
      [] command = CMD_GET_PIN_MULTI -> [S EXCEPT !.frame = Begin("get_pin_multi_len", 1)]
      [] command = CMD_DELAY -> [S EXCEPT !.frame = Begin("delay", 1)]
      [] command = CMD_WAIT_FOR_PIN -> [S EXCEPT !.frame = Begin("wait_for_pin", 2)]
      [] command = CMD_GET_NAME -> cmd_get_name(S)
      [] command = CMD_GET_API_VERSION -> Return(S, <<apiVersion>>)
      [] OTHER -> Return(S, <<1>>)

\* faulty variant: an opcode outside the enumerated set is an error
dispatch_unknown_raises(S, command) ==
    CASE command = CMD_SET_PIN_SINGLE -> [S EXCEPT !.frame = Begin("set_pin_single", 2)]
      [] command = CMD_SET_PIN_MULTI -> [S EXCEPT !.frame = Begin("set_pin_multi_len", 1)]
      [] command = CMD_WRITE_BYTES -> [S EXCEPT !.frame = Begin("write_bytes_len", 4)]
      [] command = CMD_GET_PIN_SINGLE -> [S EXCEPT !.frame = Begin("get_pin_single", 1)]
      [] command = CMD_GET_PIN_MULTI -> [S EXCEPT !.frame = Begin("get_pin_multi_len", 1)]
      [] command = CMD_DELAY -> [S EXCEPT !.frame = Begin("delay", 2)]
      [] command = CMD_WAIT_FOR_PIN -> [S EXCEPT !.frame = Begin("wait_for_pin", 2)]
      [] command = CMD_GET_NAME -> cmd_get_name(S)
      [] command = CMD_GET_API_VERSION -> Return(S, <<apiVersion>>)
      [] OTHER -> [S EXCEPT !.pc = "raise"]

\* the dispatch on the opcode byte
dispatch(S, command) ==
    CASE command = CMD_SET_PIN_SINGLE -> [S EXCEPT !.frame = Begin("set_pin_single", 2)]
      [] command = CMD_SET_PIN_MULTI -> [S EXCEPT !.frame = Begin("set_pin_multi_len", 1)]
      [] command = CMD_WRITE_BYTES -> [S EXCEPT !.frame = Begin("write_bytes_len", 4)]
      [] command = CMD_GET_PIN_SINGLE -> [S EXCEPT !.frame = Begin("get_pin_single", 1)]
      [] command = CMD_GET_PIN_MULTI -> [S EXCEPT !.frame = Begin("get_pin_multi_len", 1)]
      [] command = CMD_DELAY -> [S EXCEPT !.frame = Begin("delay", 2)]
      [] command = CMD_WAIT_FOR_PIN -> [S EXCEPT !.frame = Begin("wait_for_pin", 2)]
      [] command = CMD_GET_NAME -> cmd_get_name(S)
      [] command = CMD_GET_API_VERSION -> Return(S, <<apiVersion>>)
      [] OTHER -> Return(S, <<1>>)

\* the code of run_command and of the cmd_ handlers that follows a completed
\* take, up to the next take or to the return
run_command(S) ==
    LET rd == S.frame.returnData
    IN  CASE S.frame.stage = "command" -> dispatch(S, rd[1])
          [] S.frame.stage = "set_pin_single" ->
                Return([S EXCEPT !.pins = set_pin(S.pins, rd)], <<1>>)
          [] S.frame.stage = "set_pin_multi_len" ->
                [S EXCEPT !.frame = Begin("set_pin_multi", read_length_header(rd) * 2)]
          [] S.frame.stage = "set_pin_multi" -> Return(S, <<1>>)
          [] S.frame.stage = "write_bytes_len" ->
                [S EXCEPT !.frame = Begin("write_bytes", read_length_header(rd))]
          [] S.frame.stage = "write_bytes" -> Return(S, <<1>>)
          [] S.frame.stage = "get_pin_single" ->
                Return([S EXCEPT !.pins = cache_pin(S.pins, rd[1])],
                       <<get_pin(S.pins, rd[1])>>)
          [] S.frame.stage = "get_pin_multi_len" ->
                [S EXCEPT !.frame = Begin("get_pin_multi", read_length_header(rd))]
          [] S.frame.stage = "get_pin_multi" -> Return(S, rd)
          [] S.frame.stage = "delay" -> Return(S, <<1>>)
          [] S.frame.stage = "wait_for_pin" ->
                [S EXCEPT !.frame = [Begin("wait_for_pin_delay", 2) EXCEPT !.data = rd]]
          [] S.frame.stage = "wait_for_pin_delay" ->
                \* while False: sleep(delay_seconds)
                Return(S, <<1>>)

----------------------------------------------------------------------------
(* PicoGpioNetDaemon: run_daemon *)

Local == [pc |-> pc, buffer |-> buffer, pins |-> pins, frame |-> frame,
          result |-> result]

\* faulty variant: the exception leaves run_daemon
run_daemon_except_escapes == "dead"

\* where run_daemon continues after `except Exception`: print, close, break
run_daemon_except == "accept"

\* self.client.close() seen from the transport
srv_close(c) == IF c = "open" THEN "srvclosed" ELSE "closed"

\* faulty variant: the registry is emptied when a connection is aborted
Commit_forgets_pins(S) ==
    IF S.pc = "raise"
    THEN /\ pc' = run_daemon_except
         /\ name' = name
         /\ frame' = NoFrame
         /\ conn' = srv_close(conn)
         /\ buffer' = S.buffer
         /\ pins' = <<>>
         /\ result' = result
    ELSE /\ pc' = S.pc
         /\ name' = name
         /\ frame' = S.frame
         /\ conn' = conn
         /\ buffer' = S.buffer
         /\ pins' = S.pins
         /\ result' = S.result

\* the connection loop of run_daemon takes the outcome S of a step: on an
\* exception the connection is closed and the loop left
Commit(S) ==
    IF S.pc = "raise"
    THEN /\ pc' = run_daemon_except
         /\ name' = name
         /\ frame' = NoFrame
         /\ conn' = srv_close(conn)
         /\ buffer' = S.buffer
         /\ pins' = S.pins
         /\ result' = result
    ELSE /\ pc' = S.pc
         /\ name' = name
         /\ frame' = S.frame
         /\ conn' = conn
         /\ buffer' = S.buffer
         /\ pins' = S.pins
         /\ result' = S.result

NewHist(pns, n, w) ==
    [rcvd |-> <<>>, taken |-> <<>>, sent |-> <<>>, buf0 |-> <<>>, reads |-> 0,
     pins0 |-> pns, decoded |-> 0, conns |-> n, written |-> w,
     aborted |-> FALSE, stale |-> <<>>, slept |-> FALSE]

\* history of one step with outcome S that yielded `chunk` after receiving `got`
Note(S, got, chunk) ==
    hist' = [hist EXCEPT !.rcvd = @ \o got,
                         !.taken = @ \o chunk,
                         !.reads = @ + (IF got = <<>> THEN 0 ELSE 1),
                         !.decoded = @ + (IF frame.stage = "command" /\ chunk # <<>>
                                          THEN 1 ELSE 0),
                         !.aborted = (S.pc = "raise")]

\* faulty variant: the buffer of the previous connection is kept
accept_buffer_kept(b) == b

\* run_daemon after accept: self.buffer = bytearray()
accept_buffer(b) == <<>>

\* (clientsocket, address) = serversocket.accept(); self.buffer = bytearray();
\* then the first run_command starts at take_from_buffer_single(1)
Accept ==
    /\ pc = "accept"
    /\ conn \in {"open", "peerclosed"}
    /\ ~accepted
    /\ accepted' = TRUE
    /\ buffer' = accept_buffer(buffer)
    /\ pc' = "take"
    /\ frame' = Begin("command", 1)
    /\ hist' = [NewHist(pins, hist.conns, hist.written) EXCEPT !.stale = buffer]
    /\ UNCHANGED <<pins, result, name, conn, c2s, s2c>>

\* an iteration of take_from_buffer with bytes in the buffer
SrvTake ==
    /\ pc = "take"
    /\ take_pending(frame)
    /\ buffer # <<>>
    /\ LET S == take_from_buffer(Local)
           k == bytesToRead(frame.numberOfBytes - frame.returnedBytes, Len(buffer))
       IN  Commit(S) /\ Note(S, <<>>, Take(buffer, k))
    /\ UNCHANGED <<accepted, c2s, s2c>>

\* faulty variant: recv hands over all that has arrived
read_size_uncapped(avail) == avail

\* self.client.recv(self.max_read_size): the most one recv returns when
\* `avail` bytes have arrived
read_size(avail) == Min(avail, max_read_size)

\* an iteration of take_from_buffer with the buffer empty: read_into_buffer
\* receives n bytes, n drawn from N and between 1 and read_size, then the
\* iteration goes on
SrvRecvOf(N) ==
    /\ pc = "take"
    /\ take_pending(frame)
    /\ buffer = <<>>
    /\ c2s # <<>>
    /\ \E n \in N \cap (1..read_size(Len(c2s))) :
          LET bytesRead == Take(c2s, n)
              R == [Local EXCEPT !.buffer = @ \o bytesRead]
              S == take_from_buffer(R)
              k == bytesToRead(frame.numberOfBytes - frame.returnedBytes, n)
          IN  /\ Commit(S)
              /\ Note(S, bytesRead, Take(bytesRead, k))
              /\ c2s' = Drop(c2s, n)
    /\ UNCHANGED <<accepted, s2c>>

\* recv returns any number of the bytes that have arrived, up to read_size
SrvRecv == SrvRecvOf(1..read_size(Len(c2s)))

\* read_into_buffer: recv returned no byte, the peer closed:
\* raise ValueError('Socket connection closed')
SrvRecvClosed ==
    /\ pc = "take"
    /\ take_pending(frame)
    /\ buffer = <<>>
    /\ c2s = <<>>
    /\ conn = "peerclosed"
    /\ LET S == [Local EXCEPT !.pc = "raise"]
       IN  Commit(S) /\ Note(S, <<>>, <<>>)
    /\ UNCHANGED <<accepted, c2s, s2c>>

\* read_into_buffer: recv itself raised (connection reset by the peer)
SrvRecvError ==
    /\ pc = "take"
    /\ take_pending(frame)
    /\ buffer = <<>>
    /\ c2s # <<>>
    /\ conn = "peerclosed"
    /\ LET S == [Local EXCEPT !.pc = "raise"]
       IN  Commit(S) /\ Note(S, <<>>, <<>>)
    /\ UNCHANGED <<accepted, c2s, s2c>>

\* the code that follows a completed take
SrvCont ==
    /\ pc = "take"
    /\ ~take_pending(frame)
    /\ LET S == run_command(Local)
       IN  Commit(S) /\ Note(S, <<>>, <<>>)
    /\ UNCHANGED <<accepted, c2s, s2c>>

\* self.client.send(result), then the loop calls run_command again
SrvSend ==
    /\ pc = "send"
    /\ s2c' = IF conn = "open" THEN s2c \o result ELSE s2c
    /\ pc' = "take"
    /\ frame' = Begin("command", 1)
    /\ result' = <<>>
    /\ hist' = [hist EXCEPT !.sent = Append(@, result), !.buf0 = buffer,
                            !.reads = 0]
    /\ UNCHANGED <<buffer, pins, name, conn, accepted, c2s>>

\* self.client.send(result) raised: the peer is gone
SrvSendError ==
    /\ pc = "send"
    /\ conn = "peerclosed"
    /\ LET S == [Local EXCEPT !.pc = "raise"]
       IN  Commit(S) /\ Note(S, <<>>, <<>>)
    /\ UNCHANGED <<accepted, c2s, s2c>>

Server ==
    \/ Accept
    \/ SrvTake
    \/ SrvRecv
    \/ SrvRecvClosed
    \/ SrvRecvError
    \/ SrvCont
    \/ SrvSend
    \/ SrvSendError

----------------------------------------------------------------------------
(* A raw peer: any program that connects, writes commands and closes *)

\* the commands a raw peer writes
RawCmds ==
    { <<0, 20, 1>>, <<1, 2, 20, 1, 21, 7>>, <<2, 0, 0, 0, 1, 9>>, <<3, 20>>,
      <<4, 2, 20, 21>>, <<5, 0, 1>>, <<6, 20, 1, 0, 1>>, <<7>>, <<8>>,
      <<127>> }

\* the commands a raw peer may leave unfinished
PartialCmds == { <<2, 0, 0, 0, 1, 9>> }

Fed == hist.rcvd \o c2s

PeerConnect ==
    /\ conn \in {"none", "srvclosed", "closed"}
    /\ hist.conns < MaxConns
    /\ conn' = "open"
    /\ accepted' = FALSE
    /\ c2s' = <<>>
    /\ s2c' = <<>>
    /\ hist' = NewHist(pins, hist.conns + 1, hist.written)
    /\ UNCHANGED <<srvVars, cliVars, chist>>

\* the peer writes one whole command
PeerSend ==
    /\ conn = "open"
    /\ hist.written < MaxCmds
    /\ \E cmd \in RawCmds : c2s' = c2s \o cmd
    /\ hist' = [hist EXCEPT !.written = @ + 1]
    /\ UNCHANGED <<srvVars, conn, accepted, s2c, cliVars, chist>>

\* the peer dies while writing a command: a proper prefix, then close
PeerSendPartial ==
    /\ conn = "open"
    /\ hist.written < MaxCmds
    /\ \E cmd \in PartialCmds : \E n \in 1..(Len(cmd) - 1) :
          c2s' = c2s \o Take(cmd, n)
    /\ conn' = "peerclosed"
    /\ hist' = [hist EXCEPT !.written = @ + 1]
    /\ UNCHANGED <<srvVars, accepted, s2c, cliVars, chist>>

PeerClose ==
    /\ conn = "open"
    /\ conn' = "peerclosed"
    /\ UNCHANGED <<srvVars, accepted, c2s, s2c, cliVars, hist, chist>>

RawPeer ==
    \/ PeerConnect
    \/ PeerSend
    \/ PeerSendPartial
    \/ PeerClose

InitSrv ==
    /\ pc = "accept"
    /\ name = Mo
    /\ buffer = <<>>
    /\ pins = <<>>
    /\ frame = NoFrame
    /\ result = <<>>
    /\ conn = "none"
    /\ accepted = FALSE
    /\ c2s = <<>>
    /\ s2c = <<>>
    /\ cpc = "raw"
    /\ queue = <<>>
    /\ queueCount = 0
    /\ autoFlush = FALSE
    /\ clsQueue = <<>>
    /\ insts = <<>>
    /\ call = NoCall
    /\ hist = NewHist(<<>>, 0, 0)
    /\ chist = <<>>

NextSrv ==
    \/ Accept /\ UNCHANGED <<cliVars, chist>>
    \/ SrvTake /\ UNCHANGED <<cliVars, chist>>
    \/ SrvRecv /\ UNCHANGED <<cliVars, chist>>
    \/ SrvRecvClosed /\ UNCHANGED <<cliVars, chist>>
    \/ SrvRecvError /\ UNCHANGED <<cliVars, chist>>
    \/ SrvCont /\ UNCHANGED <<cliVars, chist>>
    \/ SrvSend /\ UNCHANGED <<cliVars, chist>>
    \/ SrvSendError /\ UNCHANGED <<cliVars, chist>>
    \/ PeerConnect
    \/ PeerSend
    \/ PeerSendPartial
    \/ PeerClose

SpecSrv == InitSrv /\ [][NextSrv]_vars

----------------------------------------------------------------------------
(* PicoGpioNetClient: the encoders of the public operations (client.py)      *)

RECURSIVE Flatten(_)
Flatten(ss) == IF ss = <<>> THEN <<>> ELSE ss[1] \o Flatten(Drop(ss, 1))

\* set_pin: cmd = [CMD_SET_PIN_SINGLE, pin, value]
set_pin_cmd(pin, value) == <<CMD_SET_PIN_SINGLE, pin, value>>

\* set_pins: cmd = [CMD_SET_PIN_MULTI, numberOfPins], then every (pin, value)
set_pins_cmd(pinsAndValues) ==
    <<CMD_SET_PIN_MULTI, Len(pinsAndValues)>> \o Flatten(pinsAndValues)

\* get_pin: cmd = [CMD_GET_PIN_SINGLE, pin]
get_pin_cmd(pin) == <<CMD_GET_PIN_SINGLE, pin>>

\* get_pins: cmd = [CMD_GET_PIN_MULTI, numberOfPins, *pins]
get_pins_cmd(pns) == <<CMD_GET_PIN_MULTI, Len(pns)>> \o pns

\* write_bytes: cmd = [CMD_WRITE_BYTES, *len(bytedata).to_bytes(4, 'big'), *bytedata]
write_bytes_cmd(bytedata) ==
    <<CMD_WRITE_BYTES>> \o to_bytes(Len(bytedata), 4) \o bytedata

\* delay: cmd = [CMD_DELAY, *delay_ms.to_bytes(2, 'big')]
delay_cmd(delay_ms) == <<CMD_DELAY>> \o to_bytes(delay_ms, 2)

\* wait_for_pin: cmd = [CMD_WAIT_FOR_PIN, pin, value, *delay_ms.to_bytes(2, 'big')]
wait_for_pin_cmd(pin, value, delay_ms) ==
    <<CMD_WAIT_FOR_PIN, pin, value>> \o to_bytes(delay_ms, 2)

\* get_name: cmd = [CMD_GET_NAME]
get_name_cmd == <<CMD_GET_NAME>>

\* get_api_version: cmd = [CMD_GET_API_VERSION]
get_api_version_cmd == <<CMD_GET_API_VERSION>>

\* the length a read-style operation passes to do_read_request
get_pin_length == 1
get_pins_length(pns) == Len(pns)
get_name_length == 1
get_api_version_length == 1

\* the write-style calls made in the model
WriteCalls ==
    { Call("set_pin", "write", <<20, 0>>, set_pin_cmd(20, 0), 0),
      Call("set_pin", "write", <<20, 1>>, set_pin_cmd(20, 1), 0),
      Call("set_pins", "write", <<20, 1, 21, 1>>,
           set_pins_cmd(<< <<20, 1>>, <<21, 1>> >>), 0),
      Call("write_bytes", "write", <<9>>, write_bytes_cmd(<<9>>), 0),
      Call("delay", "write", <<258>>, delay_cmd(258), 0),
      Call("wait_for_pin", "write", <<20, 1, 1>>, wait_for_pin_cmd(20, 1, 1), 0) }

\* the read-style calls made in the model
ReadCalls ==
    { Call("get_pin", "read", <<20>>, get_pin_cmd(20), get_pin_length),
      Call("get_pins", "read", <<20, 21>>, get_pins_cmd(<<20, 21>>),
           get_pins_length(<<20, 21>>)),
      Call("get_name", "read", <<>>, get_name_cmd, get_name_length),
      Call("get_api_version", "read", <<>>, get_api_version_cmd,
           get_api_version_length) }

FlushCall == Call("flush", "flush", <<>>, <<>>, 0)

----------------------------------------------------------------------------
(* PicoGpioNetClient: flush, do_write_request, do_read_request *)

\* faulty variant: do_write_request flushes whatever autoFlush says
do_write_flushes_always(af) == TRUE

\* do_write_request: if self.autoFlush: self.flush()
do_write_flushes(af) == af

\* faulty variant: the enqueued command is not counted
count_up_forgotten(qc) == qc

\* do_write_request: self.queueCount += 1
count_up(qc) == qc + 1

\* faulty variant: a queue of one command is not flushed
flush_skip_single(qc) == qc <= 1

\* flush: if self.queueCount == 0: return
flush_skip(qc) == qc = 0

\* faulty variant: the receive loop stops one response short
flush_loop_one_short(qc, res) == Len(res) + 1 < qc

\* flush: while len(result) < self.queueCount
flush_loop(qc, res) == Len(res) < qc

\* flush: diff = self.queueCount - len(result)
flush_diff(qc, res) == qc - Len(res)

\* number of commands whose run_command has returned in this connection
Executed == Len(hist.sent) + (IF pc = "send" THEN 1 ELSE 0)

\* the call c returns `ret` to its caller
Returns(c, ret) ==
    LET d == [c EXCEPT !.ret = ret, !.status = "ok", !.executed = Executed]
    IN  /\ cpc' = "idle"
        /\ call' = d
        /\ chist' = [chist EXCEPT !.calls = Append(@, d)]

\* faulty variant: the exception is caught inside the operation, as close()
\* does, and the operation returns normally
Raised_caught(c) == [c EXCEPT !.status = "ok", !.executed = Executed]

\* the activation c as an exception leaves it: flush, do_write_request and
\* do_read_request hold no try, the exception reaches the caller
Raised(c) == [c EXCEPT !.status = "error", !.executed = Executed]

\* an exception leaves the call c and reaches its caller
Raises(c) ==
    LET d == Raised(c)
    IN  /\ cpc' = "idle"
        /\ call' = d
        /\ chist' = [chist EXCEPT !.calls = Append(@, d)]

\* self.sock.send(bytes) returning normally
SockSend(bytes) ==
    /\ conn \in {"open", "srvclosed"}
    /\ c2s' = IF conn = "open" THEN c2s \o bytes ELSE c2s

\* flush: self.sock.send(self.queue), then the receive loop starts
\* (queueCount is not 0, so the loop body runs at least once)
FlushSend(c) ==
    /\ SockSend(queue')
    /\ cpc' = "flush"
    /\ call' = [c EXCEPT !.tx = Append(@, queue'), !.q0 = queue',
                         !.qc0 = queueCount', !.result = <<>>]

\* a write-style operation: do_write_request(cmd)
CliWrite ==
    /\ cpc = "idle"
    /\ Len(chist.calls) < MaxOps
    /\ \E c \in WriteCalls :
          /\ queue' = queue \o c.cmd
          /\ queueCount' = count_up(queueCount)
          /\ IF do_write_flushes(autoFlush) /\ ~flush_skip(queueCount')
             THEN /\ FlushSend(c)
                  /\ chist' = [chist EXCEPT !.cmds = Append(@, c),
                                            !.pending = Append(@, c.cmd)]
             ELSE /\ LET d == [c EXCEPT !.status = "ok", !.executed = Executed]
                      IN  /\ cpc' = "idle"
                          /\ call' = d
                          /\ chist' = [chist EXCEPT !.calls = Append(@, d),
                                                    !.cmds = Append(@, c),
                                                    !.pending = Append(@, c.cmd)]
                  /\ UNCHANGED c2s
    /\ UNCHANGED <<srvVars, conn, accepted, s2c, autoFlush, hist>>

\* flush() called by the application
CliFlush ==
    /\ cpc = "idle"
    /\ Len(chist.calls) < MaxOps
    /\ UNCHANGED <<queue, queueCount>>
    /\ IF flush_skip(queueCount)
       THEN /\ Returns([FlushCall EXCEPT !.q0 = queue, !.qc0 = queueCount], <<>>)
            /\ UNCHANGED c2s
       ELSE FlushSend(FlushCall) /\ UNCHANGED chist
    /\ UNCHANGED <<srvVars, conn, accepted, s2c, autoFlush, hist>>

\* a read-style operation: do_read_request(cmd, length) up to its first wait
CliRead ==
    /\ cpc = "idle"
    /\ Len(chist.calls) < MaxOps
    /\ UNCHANGED <<queue, queueCount>>
    /\ \E c \in ReadCalls :
          LET h == [chist EXCEPT !.cmds = Append(@, c)]
          IN  IF flush_skip(queueCount)
              THEN /\ SockSend(c.cmd)
                   /\ cpc' = "read"
                   /\ call' = [c EXCEPT !.tx = Append(@, c.cmd), !.q0 = queue,
                                        !.qc0 = queueCount]
                   /\ chist' = h
              ELSE FlushSend(c) /\ chist' = h
    /\ UNCHANGED <<srvVars, conn, accepted, s2c, autoFlush, hist>>

\* faulty variant: the queue is reset on the way out of a failed flush
queue_kept_reset(q) == <<>>

\* flush: an exception of send (l.93) or of recv (l.99) leaves the method
\* before the resets of l.106-107 are reached, the queue stays as it is
queue_kept(q) == q

\* a public operation whose first self.sock.send raises: the server has
\* closed the connection
CliSendError ==
    /\ cpc = "idle"
    /\ Len(chist.calls) < MaxOps
    /\ conn = "srvclosed"
    /\ \E c \in WriteCalls \cup ReadCalls \cup {FlushCall} :
          /\ c.kind = "write" => do_write_flushes(autoFlush)
          /\ c.kind = "flush" => ~flush_skip(queueCount)
          /\ queue' = queue_kept(IF c.kind = "write" THEN queue \o c.cmd ELSE queue)
          /\ queueCount' = IF c.kind = "write" THEN queueCount + 1 ELSE queueCount
          /\ LET d == Raised([c EXCEPT !.q0 = queue', !.qc0 = queueCount',
                                       !.exc = TRUE])
             IN  /\ cpc' = "idle"
                 /\ call' = d
                 /\ chist' = [chist EXCEPT
                                !.calls = Append(@, d),
                                !.cmds = IF c.kind = "flush" THEN @ ELSE Append(@, c),
                                !.pending = IF c.kind = "write"
                                            THEN Append(@, c.cmd) ELSE @]
    /\ UNCHANGED <<srvVars, netVars, autoFlush, hist>>

\* flush, one iteration of the receive loop: recv(diff) delivers between 1
\* and diff of the bytes that have arrived; after the loop the queue is reset
CliFlushRecv ==
    /\ cpc = "flush"
    /\ s2c # <<>>
    /\ \E n \in 1..Min(flush_diff(queueCount, call.result), Len(s2c)) :
          LET res == call.result \o Take(s2c, n)
              c == [call EXCEPT !.result = res]
          IN  /\ s2c' = Drop(s2c, n)
              /\ IF flush_loop(queueCount, res)
                 THEN /\ cpc' = "flush"
                      /\ call' = c
                      /\ UNCHANGED <<queue, queueCount, c2s, chist>>
                 ELSE /\ queue' = <<>>
                      /\ queueCount' = 0
                      /\ \E h \in {[chist EXCEPT !.pending = <<>>]} :
                            \/ /\ c.kind = "read"
                               /\ SockSend(c.cmd)
                               /\ cpc' = "read"
                               /\ call' = [c EXCEPT !.tx = Append(@, c.cmd),
                                                    !.flushed = TRUE]
                               /\ chist' = h
                            \/ /\ c.kind # "read"
                               /\ LET d == [c EXCEPT !.status = "ok",
                                                     !.flushed = TRUE,
                                                     !.executed = Executed]
                                  IN  /\ cpc' = "idle"
                                      /\ call' = d
                                      /\ chist' = [h EXCEPT !.calls = Append(@, d)]
                               /\ UNCHANGED c2s
    /\ UNCHANGED <<srvVars, conn, accepted, autoFlush, hist>>

\* flush, one iteration of the receive loop after the server closed: recv
\* returns b'', result does not grow and the loop goes round again
\* (call.spins: the parity of the iterations that received nothing)
CliFlushRecvClosed ==
    /\ cpc = "flush"
    /\ s2c = <<>>
    /\ conn = "srvclosed"
    /\ call' = [call EXCEPT !.spins = ~@]
    /\ UNCHANGED <<srvVars, netVars, cpc, queue, queueCount, autoFlush, hist, chist>>

\* a recv of the client raises (connection reset): the exception reaches the
\* caller of the public operation
CliRecvError ==
    /\ cpc \in {"flush", "read", "name"}
    /\ s2c = <<>>
    /\ conn = "srvclosed"
    /\ Raises([call EXCEPT !.exc = TRUE])
    /\ queue' = queue_kept(queue)
    /\ UNCHANGED <<srvVars, netVars, queueCount, autoFlush, hist>>

\* what recv(length) may return: between 1 and length of the bytes that have
\* arrived, b'' at once when length is 0 or when the server closed
RecvSizes(length) ==
    IF length = 0 THEN {0}
    ELSE IF s2c # <<>> THEN 1..Min(length, Len(s2c))
    ELSE IF conn = "srvclosed" THEN {0}
    ELSE {}

\* do_read_request: return self.sock.recv(length); get_name goes on to
\* length = int.from_bytes(lengthBytes) and its second recv
CliReadRecv ==
    /\ cpc = "read"
    /\ \E n \in RecvSizes(call.length) :
          LET got == Take(s2c, n)
          IN  /\ s2c' = Drop(s2c, n)
              /\ IF call.op = "get_name"
                 THEN /\ cpc' = "name"
                      /\ call' = [call EXCEPT !.length = from_bytes(got)]
                      /\ UNCHANGED chist
                 ELSE IF call.op = "get_api_version"
                 THEN Returns(call, <<from_bytes(got)>>)
                 ELSE Returns(call, got)
    /\ UNCHANGED <<srvVars, conn, accepted, c2s, queue, queueCount, autoFlush, hist>>

\* get_name: nameBytes = self.sock.recv(length); return nameBytes.decode()
CliNameRecv ==
    /\ cpc = "name"
    /\ \E n \in RecvSizes(call.length) :
          /\ s2c' = Drop(s2c, n)
          /\ Returns(call, Take(s2c, n))
    /\ UNCHANGED <<srvVars, conn, accepted, c2s, queue, queueCount, autoFlush, hist>>

\* close(): self.sock.close()
CliClose ==
    /\ cpc = "idle"
    /\ Len(chist.calls) < MaxOps
    /\ conn \in {"open", "srvclosed"}
    /\ cpc' = "closed"
    /\ conn' = IF conn = "open" THEN "peerclosed" ELSE "closed"
    /\ LET d == [Call("close", "close", <<>>, <<>>, 0) EXCEPT
                   !.status = "ok", !.executed = Executed]
       IN  call' = d /\ chist' = [chist EXCEPT !.calls = Append(@, d)]
    /\ UNCHANGED <<srvVars, accepted, c2s, s2c, queue, queueCount, autoFlush,
                   hist>>

\* a client constructed in a fresh process and connected to the listening
\* server: __init__(ip, port, autoFlush)
Init ==
    /\ pc = "accept"
    /\ name = Mo
    /\ buffer = <<>>
    /\ pins = <<>>
    /\ frame = NoFrame
    /\ result = <<>>
    /\ conn = "open"
    /\ accepted = FALSE
    /\ c2s = <<>>
    /\ s2c = <<>>
    /\ cpc = "idle"
    /\ queue = <<>>
    /\ queueCount = 0
    /\ autoFlush \in BOOLEAN
    /\ clsQueue = <<>>
    /\ insts = <<>>
    /\ call = NoCall
    /\ hist = NewHist(<<>>, 1, 0)
    /\ chist = [calls |-> <<>>, cmds |-> <<>>, pending |-> <<>>]

Next ==
    \/ Accept /\ UNCHANGED <<cliVars, chist>>
    \/ SrvTake /\ UNCHANGED <<cliVars, chist>>
    \/ SrvRecv /\ UNCHANGED <<cliVars, chist>>
    \/ SrvRecvClosed /\ UNCHANGED <<cliVars, chist>>
    \/ SrvRecvError /\ UNCHANGED <<cliVars, chist>>
    \/ SrvCont /\ UNCHANGED <<cliVars, chist>>
    \/ SrvSend /\ UNCHANGED <<cliVars, chist>>
    \/ SrvSendError /\ UNCHANGED <<cliVars, chist>>
    \/ CliWrite /\ UNCHANGED twoVars
    \/ CliFlush /\ UNCHANGED twoVars
    \/ CliRead /\ UNCHANGED twoVars
    \/ CliSendError /\ UNCHANGED twoVars
    \/ CliFlushRecv /\ UNCHANGED twoVars
    \/ CliFlushRecvClosed /\ UNCHANGED twoVars
    \/ CliRecvError /\ UNCHANGED twoVars
    \/ CliReadRecv /\ UNCHANGED twoVars
    \/ CliNameRecv /\ UNCHANGED twoVars
    \/ CliClose /\ UNCHANGED twoVars

Spec == Init /\ [][Next]_vars

----------------------------------------------------------------------------
(* run_command called on a daemon whose buffer was filled by the caller, as  *)
(* mock_server_test.py does: no client is connected (self.client = False)   *)

\* what may follow the first command in a preloaded buffer
Rests ==
    {<<>>} \cup RawCmds
    \cup { Take(cmd, n) : cmd \in PartialCmds, n \in 1..5 }

\* opcode bytes outside the enumerated set: the first one past it and the
\* largest byte (127 is among RawCmds)
UnknownCmds == { <<9>>, <<255>> }

\* the largest value nameLength.to_bytes() can hold: one byte
LengthByteMax == 255

\* a name of n letters, encoded
NameOfLen(n) == [i \in 1..n |-> 65]

\* the names a daemon is constructed with: the empty default of the module,
\* two letters, 'Mock server', the longest name whose length fits the length
\* byte and the shortest that does not
Names == { <<>>, Mo, MockServer, NameOfLen(LengthByteMax),
           NameOfLen(LengthByteMax + 1) }

\* the registries a test starts from
StartPins == { <<>>, [p \in {20} |-> 1] }

InitCmd ==
    /\ pc = "take"
    /\ frame = Begin("command", 1)
    /\ buffer \in UNION { { Take(cmd, n) \o R : n \in 1..Len(cmd), R \in Rests } :
                           cmd \in RawCmds \cup UnknownCmds }
    /\ pins \in StartPins
    /\ name \in Names
    /\ result = <<>>
    /\ conn = "none"
    /\ accepted = FALSE
    /\ c2s = <<>>
    /\ s2c = <<>>
    /\ cpc = "raw"
    /\ queue = <<>>
    /\ queueCount = 0
    /\ autoFlush = FALSE
    /\ clsQueue = <<>>
    /\ insts = <<>>
    /\ call = NoCall
    /\ hist = [NewHist(pins, 0, 0) EXCEPT !.buf0 = buffer]
    /\ chist = <<>>

\* read_into_buffer without a client: self.client.recv raises AttributeError,
\* which leaves run_command and reaches its caller
CmdRecvNoClient ==
    /\ pc = "take"
    /\ take_pending(frame)
    /\ buffer = <<>>
    /\ conn = "none"
    /\ pc' = "raised"
    /\ UNCHANGED <<buffer, pins, frame, result, name, netVars, hist>>

NextCmd ==
    \/ SrvTake /\ UNCHANGED <<cliVars, chist>>
    \/ SrvCont /\ UNCHANGED <<cliVars, chist>>
    \/ CmdRecvNoClient /\ UNCHANGED <<cliVars, chist>>

SpecCmd == InitCmd /\ [][NextCmd]_vars

----------------------------------------------------------------------------
(* The stream arriving in a single read: the commands of a byte string run   *)
(* one after the other on a buffer that holds all of it                     *)

\* run_command from local state S until it returns ("send"), raises, or
\* would have to read ("block")
RECURSIVE RunOne(_)
RunOne(S) ==
    IF S.pc # "take" THEN S
    ELSE IF take_pending(S.frame)
         THEN IF S.buffer = <<>> THEN [S EXCEPT !.pc = "block"]
              ELSE RunOne(take_from_buffer(S))
         ELSE RunOne(run_command(S))

\* the inner loop of run_daemon on a buffer holding `buf`: the responses sent
\* and the registry left; ok when buf was used up at a command boundary
RECURSIVE RunAll(_, _, _)
RunAll(buf, pns, resps) ==
    IF buf = <<>> THEN [resps |-> resps, pins |-> pns, ok |-> TRUE]
    ELSE LET E == RunOne([pc |-> "take", buffer |-> buf, pins |-> pns,
                          frame |-> Begin("command", 1), result |-> <<>>])
         IN  IF E.pc = "send"
             THEN RunAll(E.buffer, E.pins, Append(resps, E.result))
             ELSE [resps |-> resps, pins |-> E.pins, ok |-> FALSE]

\* the server waits for the opcode of the next command with nothing buffered
Waiting ==
    pc = "take" /\ frame.stage = "command" /\ take_pending(frame) /\ buffer = <<>>

\* the wire layout client.py encodes (section 4.2): the length of the
\* command that starts b, 0 when b is too short to tell
WireLen(b) ==
    IF b = <<>> THEN 0
    ELSE CASE b[1] = 0 -> 3
           [] b[1] = 1 -> IF Len(b) >= 2 THEN 2 + 2 * b[2] ELSE 0
           [] b[1] = 2 -> IF Len(b) >= 5 THEN 5 + from_bytes(SubSeq(b, 2, 5)) ELSE 0
           [] b[1] = 3 -> 2
           [] b[1] = 4 -> IF Len(b) >= 2 THEN 2 + b[2] ELSE 0
           [] b[1] = 5 -> 3
           [] b[1] = 6 -> 5
           [] OTHER -> 1

\* b starts with one complete command
HoldsCommand(b) == WireLen(b) > 0 /\ Len(b) >= WireLen(b)

----------------------------------------------------------------------------
(* C1: every take_from_buffer_single(n) returns exactly n bytes, and what    *)
(* the takes returned so far, followed by what the buffer still holds, is   *)
(* exactly what the transport reads delivered: nothing skipped, duplicated  *)
(* or reordered.                                                            *)
C1_TakeExactPrefix ==
    pc \in {"take", "send"} =>
        /\ hist.rcvd = hist.taken \o buffer
        /\ IsPrefix(hist.taken, Fed)
        /\ (pc = "take" /\ frame.stage \in SingleStages) =>
              /\ Len(frame.returnData) = frame.returnedBytes
              /\ frame.returnedBytes <= frame.numberOfBytes
              /\ IsPrefix(frame.returnData, Drop(hist.taken,
                            Len(hist.taken) - Len(frame.returnData)))
              /\ (~take_pending(frame) =>
                    Len(frame.returnData) = frame.numberOfBytes)

\* a 4-byte take just completed from three transport reads, bytes left over
C1_Witness ==
    /\ pc = "take"
    /\ frame.stage = "write_bytes_len"
    /\ ~take_pending(frame)
    /\ hist.reads >= 3
    /\ buffer # <<>>

(* C2: when the buffer holds one complete command followed by R, run_command *)
(* returns with the buffer equal to R and without any transport read.       *)
C2_OneCommandConsumed ==
    (pc = "send" /\ HoldsCommand(hist.buf0)) =>
        /\ buffer = Drop(hist.buf0, WireLen(hist.buf0))
        /\ hist.reads = 0

\* run_command returned from a buffer that held a SET_PIN_MULTI and more
C2_Witness ==
    /\ pc = "send"
    /\ HoldsCommand(hist.buf0)
    /\ hist.buf0[1] = CMD_SET_PIN_MULTI
    /\ buffer # <<>>
    /\ buffer = Drop(hist.buf0, WireLen(hist.buf0))

(* C3: a stream of complete commands gives the same responses and the same   *)
(* registry however it is split into transport reads as when it arrives in  *)
(* one read.                                                                *)
C3_SplitSameAsSingle ==
    LET Ref == RunAll(Fed, hist.pins0, <<>>)
    IN  ( /\ accepted
          /\ Ref.ok
          /\ \/ conn = "open" /\ Waiting /\ c2s = <<>>
             \/ conn = "srvclosed" /\ pc = "accept" )
        => (hist.sent = Ref.resps /\ pins = Ref.pins)

(* C4: responses leave in stream order, each the response of its command,    *)
(* the registry after command i is the one the commands 1..i produce in     *)
(* order, and command i+1 is not decoded before response i was sent.        *)
C4_StreamOrder ==
    pc \in {"take", "send"} =>
        /\ hist.decoded \in {Len(hist.sent), Len(hist.sent) + 1}
        /\ pc = "send" =>
              LET Ref == RunAll(hist.taken, hist.pins0, <<>>)
              IN  /\ hist.decoded = Len(hist.sent) + 1
                  /\ Ref.ok
                  /\ Ref.resps = Append(hist.sent, result)
                  /\ Ref.pins = pins
        /\ (pc = "take" /\ frame.stage = "command" /\ take_pending(frame)) =>
              LET Ref == RunAll(hist.taken, hist.pins0, <<>>)
              IN  /\ hist.decoded = Len(hist.sent)
                  /\ Ref.ok
                  /\ Ref.resps = hist.sent
                  /\ Ref.pins = pins

\* the second command of one transport read is answered after the first
C4_Witness ==
    /\ pc = "send"
    /\ Len(hist.sent) = 1
    /\ hist.reads = 0
    /\ hist.buf0 # <<>>
    /\ result = <<1, 7>>

(* C10: whatever fails inside a connection (recv returning no byte, recv or  *)
(* send raising, a handler raising), the server closes that connection and  *)
(* is back in accept; run_daemon never ends.                                *)
C10_FailureBackToAccept ==
    /\ pc \in {"accept", "take", "send"}
    /\ hist.aborted => (pc = "accept" /\ conn \in {"srvclosed", "closed"})
    /\ (pc = "accept" /\ conn = "open") => ENABLED Accept

\* a second connection was accepted and failed after the first one did
C10_Witness ==
    /\ hist.aborted
    /\ hist.conns = 2
    /\ accepted
    /\ pc = "accept"

----------------------------------------------------------------------------
(* Properties of the client talking to the mock server *)

\* the encoded commands of a sequence of calls, one after the other
RECURSIVE Wire(_)
Wire(cs) == IF cs = <<>> THEN <<>> ELSE cs[1].cmd \o Wire(Drop(cs, 1))

\* the number of response bytes the client reads for the call c, given the
\* response r: 1 per write-style command, the length passed to
\* do_read_request for a read, and for get_name 1 + the length byte
ReadsFor(c, r) ==
    IF c.kind = "write" THEN 1
    ELSE IF c.op = "get_name"
         THEN c.length + (IF r = <<>> THEN 0 ELSE from_bytes(Take(r, c.length)))
         ELSE c.length

\* the number of bytes a read-style call is documented to return
ExpectedLen(c) == IF c.op = "get_name" THEN Len(name) ELSE c.length

(* C5: flush() with queueCount = 0 sends and reads nothing; otherwise it      *)
(* makes one transport write carrying the whole queue in enqueue order,     *)
(* reads exactly queueCount response bytes, never more, and then leaves     *)
(* queue empty and queueCount = 0 whatever the bytes were; it returns None. *)
C5_Flush ==
    /\ cpc = "flush" =>
          /\ call.tx = <<queue>>
          /\ queue = Flatten(chist.pending)
          /\ queueCount = Len(chist.pending)
          /\ call.q0 = queue /\ call.qc0 = queueCount
          /\ Len(call.result) < queueCount
    /\ call.flushed =>
          /\ Len(call.result) = call.qc0
          /\ call.qc0 > 0
          /\ call.tx[1] = call.q0
          /\ call.kind # "read" => call.tx = <<call.q0>>
          /\ queue = <<>>
          /\ queueCount = 0
          /\ chist.pending = <<>>
    /\ (cpc = "idle" /\ call.op = "flush" /\ call.status = "ok") =>
          /\ call.ret = <<>>
          /\ ~call.flushed => ( /\ call.qc0 = 0
                                /\ call.tx = <<>>
                                /\ call.result = <<>>
                                /\ queueCount = 0
                                /\ queue = call.q0 )

\* flush() returned after sending two queued commands and reading two bytes
C5_Witness ==
    /\ cpc = "idle"
    /\ call.op = "flush"
    /\ call.flushed
    /\ call.qc0 = 2
    /\ Len(call.tx) = 1
    /\ Len(call.result) = 2

\* the index in chist.cmds of the last write-style command, 0 when none
RECURSIVE LastWrite(_)
LastWrite(cs) ==
    IF cs = <<>> THEN 0
    ELSE IF cs[Len(cs)].kind = "write" THEN Len(cs)
    ELSE LastWrite(Take(cs, Len(cs) - 1))

(* C6: a read-style request issued after write-style requests is answered    *)
(* only after the server has executed every write enqueued before it; and   *)
(* set_pin(p, v) followed by get_pin(p) returns v.                          *)
C6_ReadAfterWrites ==
    (cpc = "idle" /\ call.kind = "read" /\ call.status = "ok" /\ conn = "open") =>
        /\ call.executed >= LastWrite(chist.cmds)
        /\ LET n == Len(chist.calls)
           IN  ( /\ n >= 2
                 /\ chist.calls[n - 1].op = "set_pin"
                 /\ chist.calls[n - 1].status = "ok"
                 /\ call.op = "get_pin"
                 /\ call.args[1] = chist.calls[n - 1].args[1] )
               => call.ret = <<chist.calls[n - 1].args[2]>>

(* C7 as claimed: one queued write, then a read: both commands leave in a     *)
(* single transport write before the read's response is awaited.            *)
C7_SingleTransmission ==
    (~autoFlush /\ cpc = "read" /\ call.qc0 = 1) =>
        call.tx = <<call.q0 \o call.cmd>>

(* C7 as amended: one queued write, then a read: the client makes two         *)
(* transport writes, first the queue (the flush), whose response byte it    *)
(* reads, then the read command, before it awaits the read's response.      *)
C7_FlushThenRead ==
    /\ (~autoFlush /\ cpc = "read" /\ call.qc0 = 1) =>
          /\ call.tx = <<call.q0, call.cmd>>
          /\ call.flushed
          /\ Len(call.result) = 1
    /\ (cpc = "flush" /\ call.kind = "read") => call.tx = <<call.q0>>

\* the read command was just sent after the flush of one queued write
C7_Witness ==
    /\ ~autoFlush
    /\ cpc = "read"
    /\ call.qc0 = 1
    /\ call.flushed
    /\ Len(chist.calls) = 1
    /\ chist.calls[1].kind = "write"

(* C8: a read-style request returns the exact expected number of bytes        *)
(* (len(pins) for get_pins, nameLength for get_name) and leaves none of its *)
(* response in the transport.                                               *)
C8_ExactLength ==
    (cpc = "idle" /\ call.kind = "read" /\ call.status = "ok" /\ conn = "open") =>
        /\ Len(call.ret) = ExpectedLen(call)
        /\ s2c = <<>>

\* the client has read every response byte of the commands it has sent and
\* the server has answered every one of them
InStep ==
    /\ c2s = <<>>
    /\ buffer = <<>>
    /\ s2c = <<>>
    /\ pc \in {"accept", "take"}
    /\ frame.stage \in {"none", "command"}
    /\ Len(hist.sent) = Len(chist.cmds)

(* C9: the bytes the client encodes for its k-th command are decoded by       *)
(* run_command as exactly one command, the k-th, with nothing left over,    *)
(* the response has the number of bytes the client reads for it, and so     *)
(* whenever an operation has returned with nothing queued, client and       *)
(* server are in step.                                                      *)
C9_EncodeDecodeAgree ==
    /\ IsPrefix(Fed, Wire(chist.cmds))
    /\ pc = "send" =>
          LET k == Len(hist.sent) + 1
          IN  /\ k <= Len(chist.cmds)
              /\ hist.taken = Wire(Take(chist.cmds, k))
              /\ Len(result) = ReadsFor(chist.cmds[k], result)
    /\ ( /\ cpc = "idle"
         /\ call.status = "ok"
         /\ call.kind \in {"read", "write", "flush"}
         /\ queueCount = 0
         /\ conn = "open" ) => InStep

----------------------------------------------------------------------------
(* Properties of the connection buffer and of the pin registry *)

(* C11: every accept resets the buffer to empty, and in every connection    *)
(* the bytes decoded or buffered are bytes received in that connection:     *)
(* what an aborted connection left unconsumed is never decoded later.       *)
C11_AcceptResetsBuffer ==
    /\ [][(pc = "accept" /\ pc' # "accept") => buffer' = <<>>]_vars
    /\ []((accepted /\ pc \in {"take", "send"}) =>
              hist.taken \o buffer = hist.rcvd)

\* a command of the second connection is answered although the first
\* connection was aborted with unconsumed bytes in the buffer
C11_Witness ==
    /\ hist.conns = 2
    /\ accepted
    /\ hist.stale # <<>>
    /\ pc = "send"
    /\ buffer = <<>>

\* what a GET of pin p answers in the registry pns
Val(pns, p) == IF p \in DOMAIN pns THEN pns[p] ELSE 0

\* the step completes the handler of the command whose take was `stage`
Completes(stage) ==
    /\ pc = "take"
    /\ frame.stage = stage
    /\ ~take_pending(frame)
    /\ pc' = "send"

\* the bytes yielded by take_from_buffer in the step
Yielded == Drop(hist'.taken, Len(hist.taken))

(* C12: a GET of a never-referenced pin answers 0; SET_PIN_SINGLE            *)
(* [pin, value] answers [1] and makes GET of pin answer value; a GET        *)
(* answers the registry's value, which changes only when that pin is set:   *)
(* a set changes the value of no other pin.                                 *)
C12_PinGetSet ==
    [][ /\ Completes("set_pin_single") =>
              /\ result' = <<1>>
              /\ Val(pins', frame.returnData[1]) = frame.returnData[2]
              /\ \A q \in (DOMAIN pins \cup DOMAIN pins') \ {frame.returnData[1]} :
                    Val(pins', q) = Val(pins, q)
        /\ Completes("get_pin_single") =>
              /\ result' = <<Val(pins, frame.returnData[1])>>
              /\ \A q \in DOMAIN pins \cup DOMAIN pins' : Val(pins', q) = Val(pins, q)
        /\ (pc = "take" /\ frame.stage = "get_pin_multi" /\ pc' = "take") =>
              /\ frame'.returnData = frame.returnData
                    \o [i \in 1..Len(Yielded) |-> Val(pins, Yielded[i])]
              /\ \A q \in DOMAIN pins \cup DOMAIN pins' : Val(pins', q) = Val(pins, q)
        /\ \A q \in DOMAIN pins \cup DOMAIN pins' :
              Val(pins', q) # Val(pins, q) =>
                 /\ pc = "take"
                 /\ \/ /\ frame.stage = "set_pin_single"
                       /\ frame.returnData = <<q, Val(pins', q)>>
                    \/ /\ frame.stage = "set_pin_multi"
                       /\ \E i \in 1..Len(Yielded) :
                             /\ i % 2 = 1 /\ i < Len(Yielded)
                             /\ Yielded[i] = q /\ Yielded[i + 1] = Val(pins', q)
      ]_vars

\* GET_PIN_SINGLE 20 answers 1 after SET_PIN_SINGLE 20 1
C12_Witness ==
    /\ pc = "send"
    /\ hist.taken = <<0, 20, 1, 3, 20>>
    /\ hist.sent = << <<1>> >>
    /\ result = <<1>>
    /\ pins = [q \in {20} |-> 1]

(* C13: the registry outlives connections: no step taken while the server   *)
(* waits in accept (a peer connecting or closing, the accept itself)        *)
(* changes it, a step that aborts a connection changes only the pins its    *)
(* handler had set before failing, no step ever removes a pin, and a GET    *)
(* that opens a later connection answers the value the pin had when the     *)
(* previous connection ended.                                               *)
C13_RegistryOutlivesConnections ==
    /\ [][ /\ pc = "accept" => pins' = pins
           /\ DOMAIN pins \subseteq DOMAIN pins'
           /\ (pc # "accept" /\ pc' = "accept") =>
                 \A q \in DOMAIN pins' :
                    Val(pins', q) # Val(pins, q) =>
                       /\ frame.stage = "set_pin_multi"
                       /\ \E i \in 1..Len(Yielded) :
                             /\ i % 2 = 1 /\ i < Len(Yielded)
                             /\ Yielded[i] = q /\ Yielded[i + 1] = Val(pins', q)
         ]_vars
    /\ []( (pc = "send" /\ Len(hist.taken) = 2 /\ hist.taken[1] = CMD_GET_PIN_SINGLE)
              => result = <<Val(hist.pins0, hist.taken[2])>> )

\* the GET that opens the second connection answers the 1 set in the first
C13_Witness ==
    /\ hist.conns = 2
    /\ pc = "send"
    /\ hist.taken = <<3, 20>>
    /\ hist.pins0 = [q \in {20} |-> 1]
    /\ result = <<1>>

----------------------------------------------------------------------------
(* Properties of WAIT_FOR_PIN *)

(* C14: in mock_server the response [1] of WAIT_FOR_PIN [pin, target,       *)
(* interval] is handed to the sender only when the pin's value equals       *)
(* target.                                                                  *)
C14_MockWaitsForTarget ==
    [][ Completes("wait_for_pin_delay") =>
           /\ result' = <<1>>
           /\ Val(pins, frame.data[1]) = frame.data[2] ]_vars

----------------------------------------------------------------------------
(* server.py: PicoGpioNetDaemon on the Pico                                 *)
(*                                                                          *)
(* run_daemon, read_into_buffer and take_from_buffer are those of           *)
(* mock_server.py; run_command knows the opcodes 0..6 only and the handlers *)
(* drive machine.Pin objects.  pins holds the level of every GPIO of the    *)
(* board: self.pins[pin].value() reads it, the hardware changes it.         *)

\* the GPIOs machine.Pin(pin) accepts (one of them is followed); any other
\* id raises ValueError
GPIO == {20}

\* get_pin: self.cache_pin(pin); return self.pins[pin].value()
pico_get_pin(pns, pin) == pns[pin]

\* faulty variant: the loop is never entered, as in mock_server.py
poll_never(level, value) == FALSE

\* cmd_wait_for_pin: while self.get_pin(pin) != value
poll_again(level, value) == level # value

\* the body of the for loop that consumes one yielded chunk
pico_loop_body(S, chunk) ==
    CASE S.frame.stage = "set_pin_multi" ->
            \* self.set_pin(pairs[i]): set_pin reads the unbound names
            \* pairs and i, NameError
            [S EXCEPT !.pc = "raise"]
      [] S.frame.stage = "get_pin_multi" ->
            IF \A i \in 1..Len(chunk) : chunk[i] \in DOMAIN S.pins
            THEN [S EXCEPT !.frame.returnData =
                     @ \o [i \in 1..Len(chunk) |-> pico_get_pin(S.pins, chunk[i])]]
            ELSE [S EXCEPT !.pc = "raise"]
      [] OTHER -> [S EXCEPT !.frame.returnData = @ \o chunk]

\* one iteration of the while loop of take_from_buffer, buffer non-empty
pico_take_from_buffer(S) ==
    LET remaining == S.frame.numberOfBytes - S.frame.returnedBytes
        k == bytesToRead(remaining, Len(S.buffer))
        T == pico_loop_body(S, Take(S.buffer, k))
    IN  IF T.pc = "raise" THEN T
        ELSE [T EXCEPT !.buffer = Drop(S.buffer, k),
                       !.frame.returnedBytes = @ + k]

\* run_command: the dispatch on the opcode byte.  self.cmd_write_bytes(
\* numberOfBytes) and self.cmd_get_pin_single(pin) read unbound names:
\* NameError before the handler is entered
pico_dispatch(S, command) ==
    CASE command = CMD_SET_PIN_SINGLE -> [S EXCEPT !.frame = Begin("set_pin_single", 2)]
      [] command = CMD_SET_PIN_MULTI -> [S EXCEPT !.frame = Begin("set_pin_multi_len", 1)]
      [] command = CMD_WRITE_BYTES -> [S EXCEPT !.pc = "raise"]
      [] command = CMD_GET_PIN_SINGLE -> [S EXCEPT !.pc = "raise"]
      [] command = CMD_GET_PIN_MULTI -> [S EXCEPT !.frame = Begin("get_pin_multi_len", 1)]
      [] command = CMD_DELAY -> [S EXCEPT !.frame = Begin("delay", 2)]
      [] command = CMD_WAIT_FOR_PIN -> [S EXCEPT !.frame = Begin("wait_for_pin", 2)]
      [] OTHER -> Return(S, <<1>>)

\* the code of run_command and of the cmd_ handlers that follows a completed
\* take, up to the next take, to the poll loop or to the return
pico_run_command(S) ==
    LET rd == S.frame.returnData
    IN  CASE S.frame.stage = "command" -> pico_dispatch(S, rd[1])
          [] S.frame.stage = "set_pin_single" ->
                \* set_pin(pair): pin = pairs[i], NameError
                [S EXCEPT !.pc = "raise"]
          [] S.frame.stage = "set_pin_multi_len" ->
                [S EXCEPT !.frame = Begin("set_pin_multi", read_length_header(rd) * 2)]
          [] S.frame.stage = "set_pin_multi" -> Return(S, <<1>>)
          [] S.frame.stage = "get_pin_multi_len" ->
                [S EXCEPT !.frame = Begin("get_pin_multi", read_length_header(rd))]
          [] S.frame.stage = "get_pin_multi" -> Return(S, rd)
          [] S.frame.stage = "delay" -> Return(S, <<1>>)
          [] S.frame.stage = "wait_for_pin" ->
                [S EXCEPT !.frame = [Begin("wait_for_pin_delay", 2) EXCEPT !.data = rd]]
          [] S.frame.stage = "wait_for_pin_delay" -> [S EXCEPT !.pc = "poll"]

PicoTake ==
    /\ pc = "take"
    /\ take_pending(frame)
    /\ buffer # <<>>
    /\ LET S == pico_take_from_buffer(Local)
           k == bytesToRead(frame.numberOfBytes - frame.returnedBytes, Len(buffer))
       IN  Commit(S) /\ Note(S, <<>>, Take(buffer, k))
    /\ UNCHANGED <<accepted, c2s, s2c>>

PicoRecv ==
    /\ pc = "take"
    /\ take_pending(frame)
    /\ buffer = <<>>
    /\ c2s # <<>>
    /\ \E n \in 1..read_size(Len(c2s)) :
          LET bytesRead == Take(c2s, n)
              R == [Local EXCEPT !.buffer = @ \o bytesRead]
              S == pico_take_from_buffer(R)
              k == bytesToRead(frame.numberOfBytes - frame.returnedBytes, n)
          IN  /\ Commit(S)
              /\ Note(S, bytesRead, Take(bytesRead, k))
              /\ c2s' = Drop(c2s, n)
    /\ UNCHANGED <<accepted, s2c>>

PicoCont ==
    /\ pc = "take"
    /\ ~take_pending(frame)
    /\ LET S == pico_run_command(Local)
       IN  Commit(S) /\ Note(S, <<>>, <<>>)
    /\ UNCHANGED <<accepted, c2s, s2c>>

\* cmd_wait_for_pin, the test of the while loop: the pin is read; the loop
\* body is entered, or the handler returns and run_command answers [1]
PicoPoll ==
    /\ pc = "poll"
    /\ LET pin == frame.data[1]
           value == frame.data[2]
           S == IF pin \notin DOMAIN pins THEN [Local EXCEPT !.pc = "raise"]
                ELSE IF poll_again(pico_get_pin(pins, pin), value)
                     THEN [Local EXCEPT !.pc = "sleep"]
                     ELSE Return(Local, <<1>>)
       IN  Commit(S) /\ Note(S, <<>>, <<>>)
    /\ UNCHANGED <<accepted, c2s, s2c>>

\* cmd_wait_for_pin, the loop body: sleep(delay_seconds) returns
PicoSleep ==
    /\ pc = "sleep"
    /\ pc' = "poll"
    /\ hist' = [hist EXCEPT !.slept = TRUE]
    /\ UNCHANGED <<buffer, pins, frame, result, name, netVars>>

\* the hardware changes the level of a GPIO
PinChange ==
    /\ \E p \in DOMAIN pins : pins' = [pins EXCEPT ![p] = 1 - @]
    /\ UNCHANGED <<pc, buffer, frame, result, name, netVars, hist>>

\* the commands a peer of the Pico writes
\* the stream of the class comment, cmd = [*cmd1, *cmd2, *cmd3]: set pin 16
\* high, write to SPI (here one data byte), set pin 16 low
DocStream == <<1, 1, 16, 1>> \o <<2, 0, 0, 0, 1, 9>> \o <<1, 1, 16, 0>>

PicoCmds ==
    { <<0, 20, 1>>, <<4, 1, 20>>, <<6, 20, 1, 0, 1>>, <<127>>, DocStream }

PicoPeerSend ==
    /\ conn = "open"
    /\ hist.written < MaxCmds
    /\ \E cmd \in PicoCmds : c2s' = c2s \o cmd
    /\ hist' = [hist EXCEPT !.written = @ + 1]
    /\ UNCHANGED <<srvVars, conn, accepted, s2c>>

PicoServer ==
    /\ \/ Accept
       \/ PicoTake
       \/ PicoRecv
       \/ SrvRecvClosed
       \/ SrvRecvError
       \/ PicoCont
       \/ PicoPoll
       \/ PicoSleep
       \/ SrvSend
       \/ SrvSendError
    /\ UNCHANGED <<cliVars, chist>>

InitPico ==
    /\ pc = "accept"
    /\ name = Mo
    /\ buffer = <<>>
    /\ pins = [p \in GPIO |-> 0]
    /\ frame = NoFrame
    /\ result = <<>>
    /\ conn = "none"
    /\ accepted = FALSE
    /\ c2s = <<>>
    /\ s2c = <<>>
    /\ cpc = "raw"
    /\ queue = <<>>
    /\ queueCount = 0
    /\ autoFlush = FALSE
    /\ clsQueue = <<>>
    /\ insts = <<>>
    /\ call = NoCall
    /\ hist = NewHist(<<>>, 0, 0)
    /\ chist = <<>>

NextPico ==
    \/ Accept /\ UNCHANGED <<cliVars, chist>>
    \/ PicoTake /\ UNCHANGED <<cliVars, chist>>
    \/ PicoRecv /\ UNCHANGED <<cliVars, chist>>
    \/ SrvRecvClosed /\ UNCHANGED <<cliVars, chist>>
    \/ SrvRecvError /\ UNCHANGED <<cliVars, chist>>
    \/ PicoCont /\ UNCHANGED <<cliVars, chist>>
    \/ PicoPoll /\ UNCHANGED <<cliVars, chist>>
    \/ PicoSleep /\ UNCHANGED <<cliVars, chist>>
    \/ SrvSend /\ UNCHANGED <<cliVars, chist>>
    \/ SrvSendError /\ UNCHANGED <<cliVars, chist>>
    \/ PinChange /\ UNCHANGED <<cliVars, chist>>
    \/ PeerConnect
    \/ PicoPeerSend /\ UNCHANGED <<cliVars, chist>>
    \/ PeerClose

\* the daemon is one thread that runs whenever it can: it is never stopped
\* between two statements; the peer and the hardware owe nothing
SpecPico == InitPico /\ [][NextPico]_vars /\ WF_vars(PicoServer)

\* cmd_wait_for_pin is inside its while loop
Polling == pc \in {"poll", "sleep"}

(* C15: in server.py, while WAIT_FOR_PIN [pin, target, interval] polls, the *)
(* server sends nothing, takes no byte of a later command and accepts no    *)
(* connection; it leaves the loop only by reading the pin at target, and    *)
(* then answers [1]; while the pin does not read target it stays in the     *)
(* loop, whatever the peer does.                                            *)
C15_PollBlocksConnection ==
    [][ Polling =>
          /\ s2c' = s2c
          /\ hist'.sent = hist.sent
          /\ hist'.taken = hist.taken
          /\ hist'.rcvd = hist.rcvd
          /\ hist'.decoded = hist.decoded
          /\ hist'.conns = hist.conns
          /\ accepted' = accepted
          /\ pc' \in {"poll", "sleep", "send"}
          /\ pc' = "send" =>
                /\ pc = "poll"
                /\ pins[frame.data[1]] = frame.data[2]
                /\ result' = <<1>>
          /\ (pc = "poll" /\ pc' # "poll") =>
                pc' = (IF pins[frame.data[1]] = frame.data[2] THEN "send" ELSE "sleep")
      ]_vars

\* [1] is about to be sent after the poll slept, a later command of the
\* peer still unread
C15_Witness ==
    /\ pc = "send"
    /\ hist.slept
    /\ hist.taken = <<6, 20, 1, 0, 1>>
    /\ result = <<1>>
    /\ c2s # <<>>

(* C16: when the peer closes the connection while WAIT_FOR_PIN polls, the   *)
(* poll is cancelled and the server eventually is back in accept, even if   *)
(* the pin never reads the target value.                                    *)
C16_CloseCancelsPoll ==
    (Polling /\ conn = "peerclosed") ~> (pc = "accept")

----------------------------------------------------------------------------
(* Properties of the client's queue *)

\* the step is a whole public operation of kind k that returns at once
CallReturns(k) ==
    /\ cpc = "idle"
    /\ cpc' = "idle"
    /\ Len(chist'.calls) = Len(chist.calls) + 1
    /\ call'.kind = k
    /\ call'.status = "ok"

(* C17: with autoFlush off, a write-style call (set_pin, set_pins,          *)
(* write_bytes, delay, wait_for_pin) appends its encoded bytes to the end   *)
(* of the queue, adds exactly 1 to queueCount (also set_pins with several   *)
(* pins) and sends and receives nothing; it never waits.                    *)
C17_EnqueueOnly ==
    /\ [][ (~autoFlush /\ CallReturns("write")) =>
              /\ call' \in { [c EXCEPT !.status = "ok", !.executed = call'.executed] :
                             c \in WriteCalls }
              /\ queue' = queue \o call'.cmd
              /\ queueCount' = queueCount + 1
              /\ call'.tx = <<>>
              /\ call'.result = <<>>
              /\ c2s' = c2s
              /\ s2c' = s2c
              /\ hist' = hist
         ]_vars
    /\ []( (~autoFlush /\ call.kind = "write") =>
              (cpc = "idle" /\ call.status = "ok" /\ call.tx = <<>>) )

\* set_pins with two pins was queued as the second command, nothing sent
C17_Witness ==
    /\ ~autoFlush
    /\ cpc = "idle"
    /\ call.op = "set_pins"
    /\ call.status = "ok"
    /\ queueCount = 2
    /\ queue = chist.cmds[1].cmd \o set_pins_cmd(<< <<20, 1>>, <<21, 1>> >>)
    /\ Fed = <<>>

(* C18: with autoFlush on, whenever a write-style call returns, its command  *)
(* has been transmitted, its response byte has been read (so the server has *)
(* executed it and no byte of its response is still to come), queue is      *)
(* empty and queueCount is 0.                                               *)
C18_AutoFlush ==
    (autoFlush /\ cpc = "idle" /\ call.kind = "write" /\ call.status = "ok") =>
        /\ call.flushed
        /\ call.tx = <<call.cmd>>
        /\ Len(call.result) = 1
        /\ queue = <<>>
        /\ queueCount = 0
        /\ call.executed = Len(chist.cmds)
        /\ s2c = <<>>

(* C19: a transport error raised by send or recv during flush() or during   *)
(* a read-style request reaches the caller of the public operation: the     *)
(* operation ends with the exception, and in that step the client sends     *)
(* nothing again, reads nothing, keeps the same connection and drops        *)
(* nothing from its queue.                                                  *)
C19_ErrorPropagates ==
    /\ [](call.exc => (call.status = "error" /\ cpc = "idle"))
    /\ [][ (call'.exc /\ Len(chist'.calls) = Len(chist.calls) + 1) =>
              /\ c2s' = c2s
              /\ s2c' = s2c
              /\ conn' = conn
              /\ accepted' = accepted
              /\ call'.tx = (IF cpc = "idle" THEN <<>> ELSE call.tx)
              /\ call'.result = (IF cpc = "idle" THEN <<>> ELSE call.result)
              /\ IsPrefix(queue, queue')
              /\ queueCount' >= queueCount
         ]_vars

\* recv raised inside the flush a read-style request had started
C19_Witness ==
    /\ cpc = "idle"
    /\ call.exc
    /\ call.kind = "read"
    /\ call.status = "error"
    /\ Len(call.tx) = 1
    /\ ~call.flushed
    /\ call.qc0 > 0
    /\ queueCount = call.qc0

(* C20: when the first byte of the buffer is not one of the opcodes 0..8,    *)
(* run_command of the mock server raises nothing; it returns the single     *)
(* byte [1] having taken exactly that one byte, without a transport read    *)
(* and with the pin registry as it was.                                     *)
C20_UnknownOpcode ==
    (hist.buf0 # <<>> /\ hist.buf0[1] \notin 0..8) =>
        /\ ~hist.aborted
        /\ pc \in {"take", "send"}
        /\ pins = hist.pins0
        /\ hist.reads = 0
        /\ hist.taken \o buffer = hist.buf0
        /\ pc = "take" => (frame.stage = "command" /\ Len(hist.taken) <= 1)
        /\ pc = "send" =>
              /\ result = <<1>>
              /\ hist.taken = <<hist.buf0[1]>>
              /\ buffer = Drop(hist.buf0, 1)

\* run_command returned from a buffer that began with byte 255, with a
\* registry that held a pin and with more bytes behind the opcode
C20_Witness ==
    /\ pc = "send"
    /\ hist.buf0[1] = 255
    /\ Len(hist.buf0) > 1
    /\ buffer = Drop(hist.buf0, 1)
    /\ result = <<1>>
    /\ pins = hist.pins0
    /\ DOMAIN pins # {}

----------------------------------------------------------------------------
\* the command that opens a connection has been taken whole and answered
\* by run_command, the answer not yet sent
FirstAnswered(op) ==
    /\ accepted
    /\ pc = "send"
    /\ hist.sent = <<>>
    /\ hist.taken # <<>>
    /\ hist.taken[1] = op

(* C21: GET_PIN_MULTI [count, p1..pcount] answers count bytes, the i-th the  *)
(* value the i-th requested pin had when the command began (0 for a pin not *)
(* in the registry), in request order, however the command was split into   *)
(* transport reads; no pin of the registry changes value and exactly the    *)
(* requested absent pins are inserted, with value 0.                        *)
C21_GetPinMulti ==
    FirstAnswered(CMD_GET_PIN_MULTI) =>
        LET count == hist.taken[2]
            req == SubSeq(hist.taken, 3, Len(hist.taken))
        IN  /\ Len(hist.taken) = 2 + count
            /\ Len(result) = count
            /\ \A i \in 1..count : result[i] = Val(hist.pins0, req[i])
            /\ DOMAIN pins = DOMAIN hist.pins0 \cup { req[i] : i \in 1..count }
            /\ \A q \in DOMAIN pins : pins[q] = Val(hist.pins0, q)

\* pins 20 and 21 requested in three transport reads or more, pin 20 set to
\* 1 on an earlier connection and pin 21 never referenced
C21_Witness ==
    /\ FirstAnswered(CMD_GET_PIN_MULTI)
    /\ hist.taken = <<4, 2, 20, 21>>
    /\ hist.reads >= 3
    /\ hist.pins0 = [q \in {20} |-> 1]
    /\ result = <<1, 0>>
    /\ pins = [q \in {20, 21} |-> IF q = 20 THEN 1 ELSE 0]

(* C22: SET_PIN_MULTI [count, then count pin/value pairs] never fails on the *)
(* pair bytes it is given; it answers the single byte [1], every named pin  *)
(* ends with the value of the last pair that names it, and every pin not    *)
(* named keeps its value.                                                   *)
C22_SetPinMulti ==
    /\ [][ (pc = "take" /\ frame.stage = "set_pin_multi" /\ Yielded # <<>>) =>
              ~hist'.aborted ]_vars
    /\ [](FirstAnswered(CMD_SET_PIN_MULTI) =>
            LET count == hist.taken[2]
                pin(i) == hist.taken[1 + 2 * i]
                value(i) == hist.taken[2 + 2 * i]
                Named == { pin(i) : i \in 1..count }
                last(q) == CHOOSE i \in 1..count :
                              pin(i) = q /\ \A j \in (i + 1)..count : pin(j) # q
            IN  /\ Len(hist.taken) = 2 + 2 * count
                /\ result = <<1>>
                /\ DOMAIN pins = DOMAIN hist.pins0 \cup Named
                /\ \A q \in Named : pins[q] = value(last(q))
                /\ \A q \in DOMAIN pins \ Named : pins[q] = hist.pins0[q])

(* C23 as stated: for whatever name the daemon is configured with, GET_NAME  *)
(* raises nothing, takes its opcode byte only and answers one length byte   *)
(* followed by exactly that many bytes, the encoded name; the registry is   *)
(* unchanged.                                                               *)
C23_GetName ==
    (hist.buf0 # <<>> /\ hist.buf0[1] = CMD_GET_NAME) =>
        /\ ~hist.aborted
        /\ pc \in {"take", "send"}
        /\ pins = hist.pins0
        /\ hist.taken \o buffer = hist.buf0
        /\ pc = "send" =>
              /\ hist.taken = <<CMD_GET_NAME>>
              /\ result # <<>>
              /\ Len(result) = 1 + result[1]
              /\ Drop(result, 1) = name

(* C23, amended: the same for a name whose encoding has at most 255 bytes,  *)
(* the largest length the length byte can hold.                             *)
C23_GetNameFits ==
    (hist.buf0 # <<>> /\ hist.buf0[1] = CMD_GET_NAME /\ Len(name) <= LengthByteMax) =>
        /\ ~hist.aborted
        /\ pc \in {"take", "send"}
        /\ pins = hist.pins0
        /\ hist.taken \o buffer = hist.buf0
        /\ pc = "send" =>
              /\ hist.taken = <<CMD_GET_NAME>>
              /\ result # <<>>
              /\ Len(result) = 1 + result[1]
              /\ Drop(result, 1) = name

\* 'Mock server' answered as 11 and its 11 bytes, a pin in the registry and
\* more bytes behind the opcode
C23_Witness ==
    /\ pc = "send"
    /\ hist.buf0[1] = CMD_GET_NAME
    /\ Len(hist.buf0) > 1
    /\ name = MockServer
    /\ result = <<11>> \o MockServer
    /\ DOMAIN pins # {}
    /\ pins = hist.pins0

----------------------------------------------------------------------------
(* The length headers: the server at a read_length_header(k), its buffer    *)
(* holding the k bytes the client encodes for N, then whatever follows      *)

\* the takes that read a length header and the bytes they ask for: the pair
\* count of SET_PIN_MULTI and the pin count of GET_PIN_MULTI (1), the delay
\* of DELAY and of WAIT_FOR_PIN (2), the data length of WRITE_BYTES (4)
HeaderBytes ==
    [st \in {"set_pin_multi_len", "get_pin_multi_len", "delay",
             "wait_for_pin_delay", "write_bytes_len"} |->
        CASE st \in {"set_pin_multi_len", "get_pin_multi_len"} -> 1
          [] st \in {"delay", "wait_for_pin_delay"} -> 2
          [] OTHER -> 4]

\* the values encoded: the ends of each range and the values around a carry
\* into the next byte (integers stop at 2^31 - 1)
HeaderValues(k) ==
    { n \in {0, 1, 2, 255, 256, 258, 65535, 65536, 16777216, 2147483647} :
        k = 4 \/ n < Pow256(k) }

\* what may follow the header in the buffer
HeaderRests == {<<>>, <<0>>, <<20, 1>>, <<20, 1, 21, 7>>, <<9, 3, 20>>}

InitHdr ==
    /\ pc = "take"
    /\ name = Mo
    /\ \E st \in DOMAIN HeaderBytes :
          /\ frame = [Begin(st, HeaderBytes[st]) EXCEPT
                        !.data = IF st = "wait_for_pin_delay" THEN <<20, 1>> ELSE <<>>]
          /\ buffer \in { to_bytes(N, HeaderBytes[st]) \o R :
                            N \in HeaderValues(HeaderBytes[st]), R \in HeaderRests }
    /\ pins \in StartPins
    /\ result = <<>>
    /\ conn = "none"
    /\ accepted = FALSE
    /\ c2s = <<>>
    /\ s2c = <<>>
    /\ cpc = "raw"
    /\ queue = <<>>
    /\ queueCount = 0
    /\ autoFlush = FALSE
    /\ clsQueue = <<>>
    /\ insts = <<>>
    /\ call = NoCall
    /\ hist = [NewHist(pins, 0, 0) EXCEPT !.buf0 = buffer]
    /\ chist = <<>>

SpecHdr == InitHdr /\ [][NextCmd]_vars

\* the take of the header is complete and the handler has not gone on
HeaderTaken ==
    /\ pc = "take"
    /\ frame.stage \in DOMAIN HeaderBytes
    /\ ~take_pending(frame)
    /\ Len(hist.taken) = Len(frame.returnData)

\* the value whose k-byte encoding opens b
Encoded(b, k) == CHOOSE N \in HeaderValues(k) : to_bytes(N, k) = Take(b, k)

(* C24: for k in {1, 2, 4} and N representable in k bytes, the k big-endian  *)
(* bytes encoded for N are decoded by read_length_header(k) to N, and the   *)
(* take consumes exactly those k bytes: the count that follows a count      *)
(* header and the data length that follows a WRITE_BYTES header are N.      *)
C24_LengthHeaderRoundTrip ==
    /\ [](HeaderTaken =>
            LET k == HeaderBytes[frame.stage]
            IN  /\ frame.returnData = Take(hist.buf0, k)
                /\ buffer = Drop(hist.buf0, k)
                /\ \E N \in HeaderValues(k) : to_bytes(N, k) = Take(hist.buf0, k)
                /\ \A N \in HeaderValues(k) :
                      to_bytes(N, k) = Take(hist.buf0, k) =>
                         read_length_header(frame.returnData) = N)
    /\ [][ HeaderTaken =>
              LET N == Encoded(hist.buf0, HeaderBytes[frame.stage])
              IN  /\ frame.stage = "write_bytes_len" =>
                        (frame'.stage = "write_bytes" /\ frame'.numberOfBytes = N)
                  /\ frame.stage = "get_pin_multi_len" =>
                        (frame'.stage = "get_pin_multi" /\ frame'.numberOfBytes = N)
                  /\ frame.stage = "set_pin_multi_len" =>
                        (frame'.stage = "set_pin_multi" /\ frame'.numberOfBytes = 2 * N)
                  /\ frame.stage \in {"delay", "wait_for_pin_delay"} =>
                        (pc' = "send" /\ result' = <<1>>)
                  /\ buffer' = buffer
         ]_vars

\* the header 0, 1, 0, 0 of a WRITE_BYTES was decoded to 65536, the bytes
\* behind it still in the buffer
C24_Witness ==
    /\ pc = "take"
    /\ frame.stage = "write_bytes"
    /\ frame.numberOfBytes = 65536
    /\ frame.returnedBytes = 0
    /\ Take(hist.buf0, 4) = <<0, 1, 0, 0>>
    /\ hist.taken = <<0, 1, 0, 0>>
    /\ buffer = Drop(hist.buf0, 4)
    /\ buffer # <<>>

----------------------------------------------------------------------------
(* PicoGpioNetClient connected to the API version 1 daemon of server.py     *)

\* the pins the client names, both GPIOs of the board
InitV1 ==
    /\ pc = "accept"
    /\ name = Mo
    /\ buffer = <<>>
    /\ pins = [p \in {20, 21} |-> 0]
    /\ frame = NoFrame
    /\ result = <<>>
    /\ conn = "open"
    /\ accepted = FALSE
    /\ c2s = <<>>
    /\ s2c = <<>>
    /\ cpc = "idle"
    /\ queue = <<>>
    /\ queueCount = 0
    /\ autoFlush \in BOOLEAN
    /\ clsQueue = <<>>
    /\ insts = <<>>
    /\ call = NoCall
    /\ hist = NewHist(<<>>, 1, 0)
    /\ chist = [calls |-> <<>>, cmds |-> <<>>, pending |-> <<>>]

NextV1 ==
    \/ Accept /\ UNCHANGED <<cliVars, chist>>
    \/ PicoTake /\ UNCHANGED <<cliVars, chist>>
    \/ PicoRecv /\ UNCHANGED <<cliVars, chist>>
    \/ SrvRecvClosed /\ UNCHANGED <<cliVars, chist>>
    \/ SrvRecvError /\ UNCHANGED <<cliVars, chist>>
    \/ PicoCont /\ UNCHANGED <<cliVars, chist>>
    \/ PicoPoll /\ UNCHANGED <<cliVars, chist>>
    \/ PicoSleep /\ UNCHANGED <<cliVars, chist>>
    \/ SrvSend /\ UNCHANGED <<cliVars, chist>>
    \/ SrvSendError /\ UNCHANGED <<cliVars, chist>>
    \/ CliWrite /\ UNCHANGED twoVars
    \/ CliFlush /\ UNCHANGED twoVars
    \/ CliRead /\ UNCHANGED twoVars
    \/ CliSendError /\ UNCHANGED twoVars
    \/ CliFlushRecv /\ UNCHANGED twoVars
    \/ CliFlushRecvClosed /\ UNCHANGED twoVars
    \/ CliRecvError /\ UNCHANGED twoVars
    \/ CliReadRecv /\ UNCHANGED twoVars
    \/ CliNameRecv /\ UNCHANGED twoVars
    \/ CliClose /\ UNCHANGED twoVars

SpecV1 == InitV1 /\ [][NextV1]_vars

(* C25: get_api_version works against the API version 1 daemon of           *)
(* server.py: the daemon answers the unknown opcode 8 with [1], the call    *)
(* returns 1, and client and daemon are in step when it has returned,       *)
(* whatever operations the daemon has were called before (get_name, the     *)
(* other command of API version 2, was not).                                *)
C25_ApiVersionOnV1 ==
    ( /\ cpc = "idle"
      /\ call.op = "get_api_version"
      /\ call.status = "ok"
      /\ conn = "open"
      /\ \A i \in 1..Len(chist.calls) : chist.calls[i].op # "get_name" ) =>
        /\ call.ret = <<1>>
        /\ hist.taken # <<>>
        /\ hist.taken[Len(hist.taken)] = CMD_GET_API_VERSION
        /\ hist.sent # <<>>
        /\ hist.sent[Len(hist.sent)] = <<1>>
        /\ InStep

(* C26: server.py handles the commands of one byte stream one after the     *)
(* other: when a connection begins with cmd1 ++ cmd2 ++ cmd3 of the class   *)
(* comment, the daemon does not give the connection up, every response it   *)
(* sends is [1], and once it has taken the whole stream it has sent three   *)
(* of them, or is about to send the third.                                  *)
C26_DocumentedStream ==
    (accepted /\ IsPrefix(DocStream, Fed)) =>
        /\ conn # "srvclosed"
        /\ \A i \in 1..Min(3, Len(hist.sent)) : hist.sent[i] = <<1>>
        /\ Len(hist.taken) >= Len(DocStream) =>
              \/ Len(hist.sent) >= 3
              \/ Len(hist.sent) = 2 /\ pc = "send" /\ result = <<1>>

(* C27: in every reachable state of the mock server every pin of the         *)
(* registry has value 0 or 1, whatever command bytes a peer sends.          *)
C27_PinValuesBinary ==
    \A q \in DOMAIN pins : pins[q] \in {0, 1}

----------------------------------------------------------------------------
(* Two PicoGpioNetClient instances in one process, autoFlush off.  queue is *)
(* a class attribute holding one bytearray; __init__ binds no queue on the  *)
(* instance, so self.queue is that bytearray until flush binds a new one    *)
(* with self.queue = bytearray().  queueCount is an int: self.queueCount   *)
(* += 1 binds it on the instance.  Each instance has its own socket, to a   *)
(* daemon that answers one byte for every write-style command.              *)

Instances == {1, 2}

\* the write-style commands the instances enqueue
TwoCmds == { set_pin_cmd(20, 1), delay_cmd(258) }

\* the number of commands in the byte string b
RECURSIVE CmdCount(_)
CmdCount(b) == IF b = <<>> THEN 0 ELSE 1 + CmdCount(Drop(b, WireLen(b)))

\* an instance after __init__
NewInst ==
    [own |-> FALSE,        \* queue is bound on the instance
     queue |-> <<>>,       \* the instance's own bytearray, once bound
     queueCount |-> 0,
     pc |-> "idle",        \* "idle" | "recv": in the receive loop of flush
     result |-> <<>>,      \* result of the flush in progress
     inb |-> <<>>,         \* response bytes in the socket, not yet received
     pending |-> 0,        \* commands sent that the daemon has not answered
     ops |-> 0,            \* public operations called
     enq |-> <<>>,         \* history: commands enqueued since the last flush
     tx |-> <<>>,          \* history: bytes sent by the last flush
     sentOf |-> <<>>,      \* history: what enq was when they were sent
     read |-> 0]           \* history: response bytes the last flush read

\* self.queue as instance i reads it: the instance attribute when bound, the
\* class attribute otherwise
self_queue(i) == IF insts[i].own THEN insts[i].queue ELSE clsQueue

OpsCalled == insts[1].ops + insts[2].ops

InitTwo ==
    /\ clsQueue = <<>>
    /\ insts = [i \in Instances |-> NewInst]
    /\ pc = "accept"
    /\ name = Mo
    /\ buffer = <<>>
    /\ pins = <<>>
    /\ frame = NoFrame
    /\ result = <<>>
    /\ conn = "none"
    /\ accepted = FALSE
    /\ c2s = <<>>
    /\ s2c = <<>>
    /\ cpc = "raw"
    /\ queue = <<>>
    /\ queueCount = 0
    /\ autoFlush = FALSE
    /\ call = NoCall
    /\ hist = NewHist(<<>>, 0, 0)
    /\ chist = <<>>

\* do_write_request(cmd): self.queue.extend(bytearray(cmd)) changes the
\* bytearray self.queue reads, in place; self.queueCount += 1
TwoWrite(i) ==
    /\ insts[i].pc = "idle"
    /\ OpsCalled < MaxOps
    /\ \E cmd \in TwoCmds :
          /\ clsQueue' = IF insts[i].own THEN clsQueue ELSE clsQueue \o cmd
          /\ insts' = [insts EXCEPT
                         ![i].queue = IF insts[i].own THEN @ \o cmd ELSE @,
                         ![i].queueCount = @ + 1,
                         ![i].ops = @ + 1,
                         ![i].enq = @ \o cmd]

\* flush(): return when queueCount is 0; else self.sock.send(self.queue)
\* and enter the receive loop
TwoFlush(i) ==
    /\ insts[i].pc = "idle"
    /\ OpsCalled < MaxOps
    /\ IF insts[i].queueCount = 0
       THEN insts' = [insts EXCEPT ![i].ops = @ + 1]
       ELSE insts' = [insts EXCEPT
                        ![i].ops = @ + 1,
                        ![i].pc = "recv",
                        ![i].result = <<>>,
                        ![i].pending = @ + CmdCount(self_queue(i)),
                        ![i].tx = self_queue(i),
                        ![i].sentOf = insts[i].enq]
    /\ UNCHANGED clsQueue

\* the daemon of instance i answers one command: [1]
TwoServe(i) ==
    /\ insts[i].pending > 0
    /\ insts' = [insts EXCEPT ![i].pending = @ - 1, ![i].inb = Append(@, 1)]
    /\ UNCHANGED clsQueue

\* while len(result) < self.queueCount: result.extend(self.sock.recv(diff))
TwoRecv(i) ==
    /\ insts[i].pc = "recv"
    /\ flush_loop(insts[i].queueCount, insts[i].result)
    /\ insts[i].inb # <<>>
    /\ \E n \in 1..Min(insts[i].queueCount - Len(insts[i].result), Len(insts[i].inb)) :
          insts' = [insts EXCEPT ![i].result = @ \o Take(insts[i].inb, n),
                                 ![i].inb = Drop(@, n)]
    /\ UNCHANGED clsQueue

\* the loop is left: self.queue = bytearray(); self.queueCount = 0
TwoFlushed(i) ==
    /\ insts[i].pc = "recv"
    /\ ~flush_loop(insts[i].queueCount, insts[i].result)
    /\ insts' = [insts EXCEPT ![i].own = TRUE,
                              ![i].queue = <<>>,
                              ![i].queueCount = 0,
                              ![i].pc = "idle",
                              ![i].read = Len(insts[i].result),
                              ![i].enq = <<>>]
    /\ UNCHANGED clsQueue

TwoRest == <<srvVars, netVars, cpc, queue, queueCount, autoFlush, call, hist, chist>>

NextTwo ==
    \/ \E i \in Instances : TwoWrite(i) /\ UNCHANGED TwoRest
    \/ \E i \in Instances : TwoFlush(i) /\ UNCHANGED TwoRest
    \/ \E i \in Instances : TwoServe(i) /\ UNCHANGED TwoRest
    \/ \E i \in Instances : TwoRecv(i) /\ UNCHANGED TwoRest
    \/ \E i \in Instances : TwoFlushed(i) /\ UNCHANGED TwoRest

SpecTwo == InitTwo /\ [][NextTwo]_vars

(* C28: two instances have independent queues: whatever the interleaving of *)
(* their write-style calls and flushes, the bytes an instance sends in a    *)
(* flush are exactly the commands enqueued on that instance since its last  *)
(* flush, and the flush reads as many response bytes as it sent commands.   *)
C28_IndependentQueues ==
    \A i \in Instances :
        /\ insts[i].tx = insts[i].sentOf
        /\ (insts[i].pc = "idle" /\ insts[i].tx # <<>>) =>
              insts[i].read = CmdCount(insts[i].tx)

----------------------------------------------------------------------------
(* The client and the mock server as two threads that run whenever they can *)

\* the steps the client takes inside a public operation, once called
ClientRun ==
    /\ \/ CliFlushRecv
       \/ CliFlushRecvClosed
       \/ CliReadRecv
       \/ CliNameRecv
    /\ UNCHANGED twoVars

\* neither thread is ever stopped between two statements; the caller of the
\* public operations owes nothing
SpecLive ==
    /\ Init
    /\ [][Next]_vars
    /\ WF_vars(ClientRun)
    /\ WF_vars(Server /\ UNCHANGED <<cliVars, chist>>)

(* C29: when the peer has closed the connection while flush() still waits   *)
(* for response bytes, so that recv yields no byte, flush() eventually      *)
(* ends, by returning or by raising.                                        *)
C29_FlushEndsOnClose ==
    (cpc = "flush" /\ conn = "srvclosed" /\ s2c = <<>>) ~> (cpc # "flush")

\* every public operation called so far has returned normally
AllReturned ==
    \A i \in 1..Len(chist.calls) : chist.calls[i].status = "ok"

(* C30: for one client instance, between public operations that all         *)
(* returned without error, queueCount is the number of encoded commands     *)
(* held in queue, and queue is empty exactly when queueCount is 0.          *)
C30_QueueCountMatches ==
    (cpc = "idle" /\ AllReturned) =>
        /\ queueCount = CmdCount(queue)
        /\ queue = <<>> <=> queueCount = 0

\* a write, a read that flushed it, and a write again: one command queued
C30_Witness ==
    /\ cpc = "idle"
    /\ AllReturned
    /\ Len(chist.calls) = 3
    /\ chist.calls[1].kind = "write"
    /\ chist.calls[2].kind = "read"
    /\ chist.calls[2].flushed
    /\ chist.calls[3].kind = "write"
    /\ ~autoFlush
    /\ queueCount = 1
    /\ queue = chist.calls[3].cmd


-----------------------------------------------------------------------------
\* the last operation that has come back to its caller
LastCall == chist.calls[Len(chist.calls)]

\* the flush of the activation c was entered with commands queued and an
\* exception left it before its end
FlushFailed(c) == c.exc /\ ~c.flushed /\ c.qc0 > 0

(* C31: when a flush fails with a transport error, in its send or in one of  *)
(* its receives, queue and queueCount are what they were when the flush      *)
(* began, and the send of the next flush carries that whole queue again,     *)
(* the bytes the failed flush had already sent included.                     *)
C31_FailedFlushKeepsQueue ==
    /\ [][ (call'.exc /\ Len(chist'.calls) = Len(chist.calls) + 1
                      /\ FlushFailed(call')) =>
              /\ queue' = (IF cpc # "idle" THEN call.q0
                           ELSE IF call'.kind = "write" THEN queue \o call'.cmd
                           ELSE queue)
              /\ queueCount' = (IF cpc # "idle" THEN call.qc0
                                ELSE IF call'.kind = "write" THEN queueCount + 1
                                ELSE queueCount)
              /\ queue' # <<>>
              /\ (call'.tx # <<>> => call'.tx[1] = queue')
         ]_vars
    /\ []((cpc # "idle" /\ chist.calls # <<>> /\ FlushFailed(LastCall)) =>
              /\ call.tx # <<>>
              /\ call.tx[1] = LastCall.q0 \o
                                 (IF call.kind = "write" THEN call.cmd ELSE <<>>)
              /\ call.qc0 = LastCall.qc0 +
                                 (IF call.kind = "write" THEN 1 ELSE 0))

\* a flush whose send went out failed in a receive after the server had
\* changed a pin, and the flush called next has sent the same bytes again
C31_Witness ==
    /\ cpc = "flush"
    /\ call.kind = "flush"
    /\ chist.calls # <<>>
    /\ LastCall.kind = "flush"
    /\ FlushFailed(LastCall)
    /\ LastCall.tx # <<>>
    /\ call.tx = LastCall.tx
    /\ queue = LastCall.q0
    /\ queueCount = LastCall.qc0
    /\ pins # hist.pins0


-----------------------------------------------------------------------------
(* The daemon fed more than one read can hold: a write_bytes command whose   *)
(* payload is about max_read_size bytes long has arrived on an accepted      *)
(* connection, followed or not by a set_pin command.                         *)

\* the first reads of a connection that may return less than what has arrived
MaxSplit == 2

\* payload lengths: the command fills one read exactly, exceeds it by one
\* byte, exceeds it by more
BigLens == {max_read_size - 5, max_read_size - 4, max_read_size + 7}

Zeros(n) == [i \in 1..n |-> 0]

BigStreams ==
    { write_bytes_cmd(Zeros(L)) \o T : L \in BigLens, T \in {<<>>, <<0, 20, 1>>} }

InitBig ==
    /\ pc = "take"
    /\ frame = Begin("command", 1)
    /\ buffer = <<>>
    /\ pins = <<>>
    /\ name = Mo
    /\ result = <<>>
    /\ conn = "open"
    /\ accepted = TRUE
    /\ c2s \in BigStreams
    /\ s2c = <<>>
    /\ cpc = "raw"
    /\ queue = <<>>
    /\ queueCount = 0
    /\ autoFlush = FALSE
    /\ clsQueue = <<>>
    /\ insts = <<>>
    /\ call = NoCall
    /\ hist = NewHist(pins, 1, 1)
    /\ chist = <<>>

\* recv returns all that has arrived, up to read_size, or, in the first
\* MaxSplit reads, 1 or 6 bytes
BigRecv ==
    SrvRecvOf({read_size(Len(c2s))} \cup
              (IF hist.reads < MaxSplit THEN {1, 6} ELSE {}))

NextBig ==
    \/ BigRecv /\ UNCHANGED <<cliVars, chist>>
    \/ SrvTake /\ UNCHANGED <<cliVars, chist>>
    \/ SrvCont /\ UNCHANGED <<cliVars, chist>>
    \/ SrvSend /\ UNCHANGED <<cliVars, chist>>

SpecBig == InitBig /\ [][NextBig]_vars

(* C32: the buffer of the daemon never holds more than max_read_size bytes:  *)
(* a step that reads from the transport starts with the buffer empty and     *)
(* receives at most max_read_size bytes, whatever has arrived.               *)
C32_BufferBounded ==
    /\ [](Len(buffer) <= max_read_size)
    /\ [][ hist'.reads = hist.reads + 1 =>
              /\ buffer = <<>>
              /\ Len(c2s) - Len(c2s') \in 1..max_read_size
              /\ Len(hist'.rcvd) = Len(hist.rcvd) + (Len(c2s) - Len(c2s'))
              /\ Len(buffer') <= Len(c2s) - Len(c2s')
         ]_vars

\* more than max_read_size bytes had arrived: the first read took
\* max_read_size of them, the opcode has been taken from the buffer
C32_Witness ==
    /\ hist.reads = 1
    /\ Len(hist.rcvd) = max_read_size
    /\ Len(buffer) = max_read_size - 1
    /\ c2s # <<>>
    /\ frame.stage = "write_bytes_len"

====
